---- MODULE Spec2Model ----
(***************************************************************************)
(* Model of the content cache and fetch pipeline of the random wallpaper   *)
(* browser extension: the IndexedDB store with its write lock              *)
(* (src/src/db/index.ts), the keyword rotation, the downloader and the     *)
(* provider fetchers (src/src/api/index.ts), and the refresh controller    *)
(* (src/src/background.ts).                                                *)
(*                                                                         *)
(* One JavaScript context is modelled: asynchronous functions interleave   *)
(* at their await points, and an IndexedDB transaction is one atomic step. *)
(* The clock is counted in hours (TLC integers are 32 bits wide, and the   *)
(* permanent horizon of 100 years does not fit in milliseconds).           *)
(***************************************************************************)
EXTENDS Integers, Sequences, FiniteSets, TLC

VARIABLES
    now,             \* Date.now()
    ticks,           \* number of clock advances so far (bounds the model)
    images,          \* imagesStore: id -> record or NoImage
    history,         \* historyStore: set of records
    historyKey,      \* autoIncrement key generator of historyStore
    lastFetch,       \* metadataStore["lastFetch"]
    dbWriteLock,     \* the promise held by the module variable dbWriteLock
    resolved,        \* the promises of the lock chain that are resolved
    ops,             \* the calls made through acquireWriteLock, in issue order
    fetched,         \* timestamp and expiry computed by a provider fetcher
    lastPick,        \* result of the latest _getRandomImageWithDB
    lastSweep,       \* what the latest cleanExpiredImages removed
    lastAppend,      \* what the latest addToHistory added and trimmed
    isFetching,      \* backgroundState.isFetching
    calls,           \* refreshImages invocations: call -> position
    cycle,           \* counters of the refresh cycle in progress
    unsplashKeywords, pexelsKeywords,   \* settings.searchPreferences
    lastKeywordIndex,                   \* chrome.storage.local lastKeywordIndex
    kwLog,           \* keywords returned by getNextKeywordSequentially
    kwStart,         \* cursor persisted before the first call
    dl,               \* the download of one item in progress
    prov,            \* one provider fetcher (fetchUnsplashImages / fetchPexelsImages)
    fa,              \* one fetchAllImages call
    cy,              \* one refresh cycle seen together with the store
    sel,             \* one call of the image-source selection (fallback module)
    tx,              \* the readwrite transaction on imagesStore in progress
    rd,              \* one read of imagesStore (a readonly transaction)
    tab,             \* the new tab page: appState and what it displays
    ctl              \* the options page and the message handler of the background

storeVars == <<now, ticks, images, history, historyKey, lastFetch, dbWriteLock,
               resolved, ops, fetched, lastPick, lastSweep, lastAppend>>
refreshVars == <<isFetching, calls, cycle>>
kwVars == <<unsplashKeywords, pexelsKeywords, lastKeywordIndex, kwLog, kwStart>>
dlVars == <<dl>>
pipeVars == <<prov, fa, cy, sel, tx, rd, tab, ctl>>
vars == <<storeVars, refreshVars, kwVars, dlVars, pipeVars>>

----------------------------------------------------------------------------
(* Bounds of the model *)
MaxIds == 1
MaxTicks == 1
MaxOps == 2
MaxHistoryOps == 3
MaxLockOps == 3
MaxCeil == 2
MaxKwLen == 5
MaxCursor == 2
MaxKwCalls == 4
MaxRetriesArg == 2
MaxRefreshCalls == 2
MaxBatch == 3
MaxKeys == 1
MaxItems == 2
MaxSettingLen == 3
MaxEntries == 11

(* Program constants *)
IMAGE_EXPIRY_HOURS == 24
PERMANENT_CACHE_EXPIRY_YEARS == 100
PERMANENT_CACHE_EXPIRY_MS == PERMANENT_CACHE_EXPIRY_YEARS * 365 * 24
DEFAULT_MAX_RETRIES == 3
UNSPLASH_IMAGES_COUNT == 30
PEXELS_IMAGES_COUNT == 80
MAX_RECURSION_DEPTH == 10
IMMEDIATE_FETCH_COOLDOWN_MS == 10000
EfficientMaxAttempts == 5       \* getRandomImageEfficient(maxAttempts = 5)
FORCE_REFRESH_COOLDOWN_MS == 60000
MaxApiKeys == 2                 \* API keys the user can add
MaxTransitions == 3             \* calls of CanvasTransitionManager.transition
MaxTriggers == 3                \* 'apiKeysUpdated' messages received
MaxWaits == 3                   \* steps of the clock between them
RandomImageAttempts == 3        \* getRandomImage: let attempts = 3
SingleImageMaxRetries == 1      \* downloadFile(imageUrl, { maxRetries: 1 })

Ids == 1..MaxIds
NoImage == [id |-> 0, timestamp |-> 0, expiresAt |-> 0]
NoFetch == [st |-> "none", timestamp |-> 0, expiresAt |-> 0]
NoEntry == [id |-> 0, viewedAt |-> 0, imageId |-> 0]
NoPick == [st |-> "none", now |-> 0, image |-> NoImage]
NoSweep == [st |-> "none", now |-> 0, removed |-> {}, queued |-> FALSE]
NoAppend == [st |-> "none", entry |-> NoEntry, maxSize |-> 0, removed |-> {}]
NoDownload == [mode |-> "none", pc |-> "idle", maxRetries |-> 0, attempt |-> 0,
               requests |-> 0, waits |-> 0, fails |-> 0,
               error |-> "none", status |-> 0,
               outer |-> 0, total |-> 0]
(* "supercars, superbikes" for both sources, a keyword written as one letter *)
DEFAULT_UNSPLASH_KEYWORDS == <<"a", ",", " ", "b">>
DEFAULT_PEXELS_KEYWORDS == <<"a", ",", " ", "b">>
NoProvider == [pc |-> "idle", M |-> 0, item |-> <<>>, attempted |-> {},
               result |-> {}, raised |-> FALSE,
               variant |-> "current", notImages |-> {}, stored |-> {}]
NoFetchAll == [pc |-> "idle", onLine |-> TRUE,
               unsplashKeys |-> 0, pexelsKeys |-> 0,
               pendingU |-> 0, pendingP |-> 0, expected |-> 0,
               requests |-> 0, attempted |-> 0, actual |-> 0,
               failed |-> 0, returned |-> 0,
               warned |-> FALSE, raised |-> FALSE, cycle |-> "none",
               cursor0 |-> -1, keyword |-> <<>>, given |-> {}]
NoCycle == [pc |-> "idle", permanentMode |-> FALSE, hasKeys |-> FALSE,
            onLine |-> TRUE, switchedOff |-> FALSE, mode |-> FALSE,
            held0 |-> {}, updatedCount |-> -1, removed |-> {},
            before |-> <<>>, lastFetch0 |-> {}, yielded |-> -1,
            batch |-> {}, storeCalled |-> FALSE, storedOk |-> FALSE,
            setLastCalled |-> FALSE, setLastDone |-> FALSE,
            api |-> FALSE, other |-> FALSE, seen |-> "none"]
NoSelection == [pc |-> "idle", fn |-> "none", allowApiCalls |-> FALSE,
                onLine |-> TRUE, hasKeys |-> FALSE, rateLimited |-> FALSE,
                strategy |-> "none", tried |-> <<>>, apiFetches |-> 0,
                result |-> "none", items |-> 0, raised |-> FALSE]
NoTransaction == [pc |-> "none", op |-> "none", at |-> 0, batch |-> {},
                  before |-> <<>>, undo |-> <<>>, todo |-> {}, behind |-> FALSE,
                  error |-> "none"]
NoRead == [pc |-> "none", fn |-> "none", arg |-> 0, behind |-> FALSE,
           error |-> "none",
           overlap |-> FALSE, before |-> <<>>, after |-> <<>>,
           many |-> FALSE, sawNone |-> FALSE, sawAll |-> FALSE,
           gotNone |-> FALSE, gotAll |-> FALSE, inCycle |-> FALSE]
NoSettings == [apiKeys |-> {}, forceRefreshCooldown |-> -1]
DEFAULT_SETTINGS == [apiKeys |-> {}, forceRefreshCooldown |-> 0]
NoCanvas == [activeTransitionId |-> 0, isTransitioning |-> FALSE,
             animationFrameId |-> 0, nextImage |-> 0, currentImage |-> 0,
             partial |-> FALSE,
             call |-> [k \in 1..MaxTransitions |-> "none"]]
NoStats == [pc |-> "idle", now |-> 0, totalImages |-> -1, validImages |-> -1,
            expiredImages |-> 0, existed |-> {}]
NoOutcomes == [settled |-> <<>>]
NoBackground == [now |-> IMMEDIATE_FETCH_COOLDOWN_MS, waits |-> 0,
                 lastManualFetch |-> 0, apiKeyUpdateCount |-> 0,
                 refreshes |-> 0, log |-> <<>>]
NoRetag == [pc |-> "idle", at |-> 0, before |-> <<>>, todo |-> {},
            updatedCount |-> 0, result |-> 0, expiredBefore |-> FALSE]
NoRandomImage == [pc |-> "idle", attempts |-> RandomImageAttempts, image |-> NoImage,
                  draws |-> 0, validAtDraw |-> FALSE, viewedAll |-> FALSE,
                  result |-> NoImage]
NoTab == [pc |-> "idle"]
NoControl == [pc |-> "idle"]
NoInvocations == [housekeeping |-> 0, fetchAllImages |-> 0,
                  storeImages |-> 0, setLastFetchTime |-> 0]
NoCall == [pc |-> "idle", during |-> 0, invoked |-> NoInvocations,
           storeError |-> FALSE, told |-> "nothing"]

(* The clock advances by one unit or by the normal TTL, so that the instants
   just before, at and just after an expiry are reached in two advances. *)
TickSteps == {1, IMAGE_EXPIRY_HOURS}

----------------------------------------------------------------------------
(* computeExpiry with the normal TTL left out *)
computeExpiry_noTtl(isPermanentCacheEnabled, t) ==
    IF isPermanentCacheEnabled THEN t + PERMANENT_CACHE_EXPIRY_MS ELSE t

(* utils: computeExpiry *)
computeExpiry(isPermanentCacheEnabled, t) ==
    IF isPermanentCacheEnabled
    THEN t + PERMANENT_CACHE_EXPIRY_MS
    ELSE t + IMAGE_EXPIRY_HOURS

(* the sweep opened over the valid side of the index *)
upperBound_asLowerBound(x, key) == key >= x

(* IDBKeyRange.lowerBound(x) and upperBound(x): both bounds are closed *)
lowerBound(x, key) == key >= x
upperBound(x, key) == key <= x

StoredIn(imgs) == {id \in Ids : imgs[id] # NoImage}
Stored == StoredIn(images)

(* Position of a record in the expiresAt index: keys ascending, then primary key *)
IndexBefore(a, b) ==
    \/ a.expiresAt < b.expiresAt
    \/ a.expiresAt = b.expiresAt /\ a.id < b.id

(* The records a cursor over the expiresAt index visits for a range, in order *)
RECURSIVE IndexScan(_)
IndexScan(S) ==
    IF S = {} THEN <<>>
    ELSE LET first == CHOOSE a \in S : \A b \in S \ {a} : IndexBefore(a, b)
         IN <<first>> \o IndexScan(S \ {first})

ValidRecords(t) == {images[id] : id \in {i \in Stored : lowerBound(t, images[i].expiresAt)}}
ExpiredRecords(t) == {images[id] : id \in {i \in Stored : upperBound(t, images[i].expiresAt)}}

----------------------------------------------------------------------------
(* The write lock: acquireWriteLock *)

Kinds == {"storeImages", "cleanExpiredImages", "setAllImagesToPermanentCache",
          "clearAllImages", "setLastFetchTime", "addToHistory", "clearHistory"}

NoArg == [images |-> {}, imageId |-> 0, maxSize |-> 0, timestamp |-> 0]

(* acquireWriteLock up to its first await: the call remembers the current
   lock promise and installs its own as the new dbWriteLock *)
Acquire(limit, kind, arg) ==
    /\ Len(ops) < limit
    /\ ops' = Append(ops, [kind |-> kind, st |-> "waiting", cur |-> dbWriteLock,
                           mine |-> Len(ops) + 1, arg |-> arg, t0 |-> 0,
                           queued |-> dbWriteLock \notin resolved])
    /\ dbWriteLock' = Len(ops) + 1

(* the operation started without awaiting the previous holder *)
LockAcquired_noAwait(op) == TRUE

(* await currentLock: the continuation runs once that promise is resolved *)
LockAcquired(op) == op.cur \in resolved

(* finally { releaseLock() } and the end of the call *)
Release(i) ==
    /\ ops' = [ops EXCEPT ![i].st = "done", ![i].kind = "", ![i].arg = NoArg,
                          ![i].t0 = 0, ![i].queued = FALSE]
    /\ resolved' = resolved \cup {ops[i].mine}

InBody(i, kind) == i \in 1..Len(ops) /\ ops[i].kind = kind /\ ops[i].st = "body"

----------------------------------------------------------------------------
(* History: the cursor over the viewedAt index, oldest first *)
HistoryBefore(a, b) ==
    \/ a.viewedAt < b.viewedAt
    \/ a.viewedAt = b.viewedAt /\ a.id < b.id

(* The first n records the viewedAt cursor visits (all of them when fewer) *)
RECURSIVE OldestFirst(_, _)
OldestFirst(H, n) ==
    IF n <= 0 \/ H = {} THEN {}
    ELSE LET first == CHOOSE a \in H : \A b \in H \ {a} : HistoryBefore(a, b)
         IN {first} \cup OldestFirst(H \ {first}, n - 1)

(* the trim started at count >= maxSize and removed one record too many *)
TrimSet_oneTooMany(H, maxSize) ==
    LET count == Cardinality(H)
    IN IF count >= maxSize THEN OldestFirst(H, count - maxSize + 1) ELSE {}

(* addToHistory: the records removed after the add *)
TrimSet(H, maxSize) ==
    LET count == Cardinality(H)
    IN IF count > maxSize THEN OldestFirst(H, count - maxSize) ELSE {}

----------------------------------------------------------------------------
(* What the latest step returned to its caller; every other step forgets it *)
Observed(pick, sweep, append) ==
    /\ lastPick' = pick
    /\ lastSweep' = sweep
    /\ lastAppend' = append

Quiet == Observed(NoPick, NoSweep, NoAppend)

(* The clock *)
Tick ==
    /\ ticks < MaxTicks
    /\ \E d \in TickSteps : now' = now + d
    /\ ticks' = ticks + 1
    /\ UNCHANGED <<images, history, historyKey, lastFetch, dbWriteLock, resolved,
                   ops, fetched>>
    /\ Quiet
    /\ UNCHANGED <<refreshVars, kwVars, dlVars, pipeVars>>

(* A provider fetcher after its metadata request: const now = Date.now() *)
FetcherNow(limit) ==
    /\ fetched.st = "none"
    /\ Len(ops) < limit
    /\ fetched' = [st |-> "now", timestamp |-> now, expiresAt |-> 0]
    /\ UNCHANGED <<now, ticks, images, history, historyKey, lastFetch, dbWriteLock,
                   resolved, ops>>
    /\ Quiet
    /\ UNCHANGED <<refreshVars, kwVars, dlVars, pipeVars>>

(* ... and its next statement: const expiresAt = await computeExpiry(...) *)
FetcherExpiry ==
    /\ fetched.st = "now"
    /\ \E permanentMode \in BOOLEAN :
          fetched' = [fetched EXCEPT !.st = "ready",
                                     !.expiresAt = computeExpiry(permanentMode, now)]
    /\ UNCHANGED <<now, ticks, images, history, historyKey, lastFetch, dbWriteLock,
                   resolved, ops>>
    /\ Quiet
    /\ UNCHANGED <<refreshVars, kwVars, dlVars, pipeVars>>

(* getFallbackImages: one Date.now() for both timestamp and expiry *)
getFallbackImages(limit) ==
    /\ fetched.st = "none"
    /\ Len(ops) < limit
    /\ \E permanentCache \in BOOLEAN :
          fetched' = [st |-> "ready", timestamp |-> now,
                      expiresAt |-> IF permanentCache
                                    THEN now + PERMANENT_CACHE_EXPIRY_MS
                                    ELSE now + IMAGE_EXPIRY_HOURS]
    /\ UNCHANGED <<now, ticks, images, history, historyKey, lastFetch, dbWriteLock,
                   resolved, ops>>
    /\ Quiet
    /\ UNCHANGED <<refreshVars, kwVars, dlVars, pipeVars>>

----------------------------------------------------------------------------
(* Calls of the mutating store operations: each goes through acquireWriteLock *)

othersUnchangedByStore == UNCHANGED <<refreshVars, kwVars, dlVars, pipeVars>>

CallStoreImages(limit) ==
    /\ fetched.st = "ready"
    /\ \E S \in SUBSET Ids :
          Acquire(limit, "storeImages",
                  [NoArg EXCEPT !.images =
                      {[id |-> id, timestamp |-> fetched.timestamp,
                        expiresAt |-> fetched.expiresAt] : id \in S}])
    /\ fetched' = NoFetch
    /\ UNCHANGED <<now, ticks, images, history, historyKey, lastFetch, resolved>>
    /\ Quiet
    /\ othersUnchangedByStore

CallCleanExpiredImages(limit) ==
    /\ Acquire(limit, "cleanExpiredImages", NoArg)
    /\ UNCHANGED <<now, ticks, images, history, historyKey, lastFetch, resolved,
                   fetched>>
    /\ Quiet
    /\ othersUnchangedByStore

CallSetAllImagesToPermanentCache(limit) ==
    /\ Acquire(limit, "setAllImagesToPermanentCache", NoArg)
    /\ UNCHANGED <<now, ticks, images, history, historyKey, lastFetch, resolved,
                   fetched>>
    /\ Quiet
    /\ othersUnchangedByStore

CallClearAllImages(limit) ==
    /\ Acquire(limit, "clearAllImages", NoArg)
    /\ UNCHANGED <<now, ticks, images, history, historyKey, lastFetch, resolved,
                   fetched>>
    /\ Quiet
    /\ othersUnchangedByStore

CallClearHistory(limit) ==
    /\ Acquire(limit, "clearHistory", NoArg)
    /\ UNCHANGED <<now, ticks, images, history, historyKey, lastFetch, resolved,
                   fetched>>
    /\ Quiet
    /\ othersUnchangedByStore

CallSetLastFetchTime(limit) ==
    /\ Acquire(limit, "setLastFetchTime", [NoArg EXCEPT !.timestamp = now])
    /\ UNCHANGED <<now, ticks, images, history, historyKey, lastFetch, resolved,
                   fetched>>
    /\ Quiet
    /\ othersUnchangedByStore

CallAddToHistory(limit) ==
    /\ \E imageId \in Ids, maxSize \in 0..MaxCeil :
          Acquire(limit, "addToHistory", [NoArg EXCEPT !.imageId = imageId, !.maxSize = maxSize])
    /\ UNCHANGED <<now, ticks, images, history, historyKey, lastFetch, resolved,
                   fetched>>
    /\ Quiet
    /\ othersUnchangedByStore

(* The operation passed to acquireWriteLock starts; cleanExpiredImages reads the
   clock as its first statement, before it opens the database *)
EnterBody(i) ==
    /\ i \in 1..Len(ops)
    /\ ops[i].st = "waiting"
    /\ LockAcquired(ops[i])
    /\ ops' = [ops EXCEPT ![i].st = "body",
                          ![i].t0 = IF ops[i].kind = "cleanExpiredImages" THEN now ELSE 0]
    /\ UNCHANGED <<now, ticks, images, history, historyKey, lastFetch, dbWriteLock,
                   resolved, fetched>>
    /\ Quiet
    /\ othersUnchangedByStore

storeImages(i) ==
    /\ InBody(i, "storeImages")
    /\ \E ok \in BOOLEAN :
        /\ images' = IF ok
                     THEN [id \in Ids |->
                             IF \E r \in ops[i].arg.images : r.id = id
                             THEN CHOOSE r \in ops[i].arg.images : r.id = id
                             ELSE images[id]]
                     ELSE images
        /\ Release(i)
    /\ UNCHANGED <<now, ticks, history, historyKey, lastFetch, dbWriteLock, fetched>>
    /\ Quiet
    /\ othersUnchangedByStore

cleanExpiredImages(i) ==
    /\ InBody(i, "cleanExpiredImages")
    /\ \E ok \in BOOLEAN :
        LET visited == ExpiredRecords(ops[i].t0) IN
        /\ images' = IF ok
                     THEN [id \in Ids |-> IF images[id] \in visited THEN NoImage
                                          ELSE images[id]]
                     ELSE images
        /\ Observed(NoPick,
                    IF ok
                    THEN [st |-> "swept", now |-> ops[i].t0,
                          removed |-> {images[id] : id \in Stored \ StoredIn(images')},
                          queued |-> ops[i].queued]
                    ELSE NoSweep,
                    NoAppend)
        /\ Release(i)
    /\ UNCHANGED <<now, ticks, history, historyKey, lastFetch, dbWriteLock, fetched>>
    /\ othersUnchangedByStore

setAllImagesToPermanentCache(i) ==
    /\ InBody(i, "setAllImagesToPermanentCache")
    /\ \E ok \in BOOLEAN :
        LET permanentExpiryDate == now + PERMANENT_CACHE_EXPIRY_MS IN
        /\ images' = IF ok
                     THEN [id \in Ids |->
                             IF images[id] = NoImage THEN NoImage
                             ELSE [images[id] EXCEPT !.expiresAt = permanentExpiryDate]]
                     ELSE images
        /\ Release(i)
    /\ UNCHANGED <<now, ticks, history, historyKey, lastFetch, dbWriteLock, fetched>>
    /\ Quiet
    /\ othersUnchangedByStore

clearAllImages(i) ==
    /\ InBody(i, "clearAllImages")
    /\ \E ok \in BOOLEAN :
        /\ images' = IF ok THEN [id \in Ids |-> NoImage] ELSE images
        /\ Release(i)
    /\ UNCHANGED <<now, ticks, history, historyKey, lastFetch, dbWriteLock, fetched>>
    /\ Quiet
    /\ othersUnchangedByStore

setLastFetchTime(i) ==
    /\ InBody(i, "setLastFetchTime")
    /\ \E ok \in BOOLEAN :
        /\ lastFetch' = IF ok THEN {ops[i].arg.timestamp} ELSE lastFetch
        /\ Release(i)
    /\ UNCHANGED <<now, ticks, images, history, historyKey, dbWriteLock, fetched>>
    /\ Quiet
    /\ othersUnchangedByStore

addToHistory(i) ==
    /\ InBody(i, "addToHistory")
    /\ \E ok \in BOOLEAN :
        LET entry == [id |-> historyKey + 1, viewedAt |-> now,
                      imageId |-> ops[i].arg.imageId]
            added == history \cup {entry}
            removed == TrimSet(added, ops[i].arg.maxSize)
        IN
        /\ history' = IF ok THEN added \ removed ELSE history
        /\ historyKey' = IF ok THEN historyKey + 1 ELSE historyKey
        /\ Observed(NoPick, NoSweep,
                    IF ok
                    THEN [st |-> "appended", entry |-> entry,
                          maxSize |-> ops[i].arg.maxSize, removed |-> removed]
                    ELSE NoAppend)
        /\ Release(i)
    /\ UNCHANGED <<now, ticks, images, lastFetch, dbWriteLock, fetched>>
    /\ othersUnchangedByStore

clearHistory(i) ==
    /\ InBody(i, "clearHistory")
    /\ \E ok \in BOOLEAN :
        /\ history' = IF ok THEN {} ELSE history
        /\ Release(i)
    /\ UNCHANGED <<now, ticks, images, historyKey, lastFetch, dbWriteLock, fetched>>
    /\ Quiet
    /\ othersUnchangedByStore

(* _getRandomImageWithDB: count the valid range, draw an index, walk the cursor *)
getRandomImageWithDB ==
    /\ LET valid == IndexScan(ValidRecords(now))
           count == Len(valid)
       IN IF count = 0
          THEN Observed([st |-> "picked", now |-> now, image |-> NoImage],
                        NoSweep, NoAppend)
          ELSE \E randomIndex \in 0..(count - 1) :
                  Observed([st |-> "picked", now |-> now, image |-> valid[randomIndex + 1]],
                           NoSweep, NoAppend)
    /\ UNCHANGED <<now, ticks, images, history, historyKey, lastFetch, dbWriteLock,
                   resolved, ops, fetched>>
    /\ othersUnchangedByStore

----------------------------------------------------------------------------
(* Initial states *)

InitStoreVars ==
    /\ now = 0
    /\ ticks = 0
    /\ images = [id \in Ids |-> NoImage]
    /\ history = {}
    /\ historyKey = 0
    /\ lastFetch = {}
    /\ dbWriteLock = 0          \* let dbWriteLock = Promise.resolve()
    /\ resolved = {0}
    /\ ops = <<>>
    /\ fetched = NoFetch
    /\ lastPick = NoPick
    /\ lastSweep = NoSweep
    /\ lastAppend = NoAppend

InitRefreshVars ==
    /\ isFetching = FALSE
    /\ calls = [c \in 1..MaxRefreshCalls |-> NoCall]
    /\ cycle = NoInvocations

InitKwVars ==
    /\ unsplashKeywords = DEFAULT_UNSPLASH_KEYWORDS
    /\ pexelsKeywords = DEFAULT_PEXELS_KEYWORDS
    /\ lastKeywordIndex = {}
    /\ kwLog = <<>>
    /\ kwStart = -1

InitDlVars ==
    /\ dl = NoDownload
    /\ prov = NoProvider
    /\ fa = NoFetchAll
    /\ cy = NoCycle
    /\ sel = NoSelection
    /\ tx = NoTransaction
    /\ rd = NoRead
    /\ tab = NoTab
    /\ ctl = NoControl

----------------------------------------------------------------------------
(* The store: the mutating operations behind the write lock, the clock, the
   fetchers that create items, and the random read *)

InitStore == InitStoreVars /\ InitRefreshVars /\ InitKwVars /\ InitDlVars

NextStore ==
    \/ Tick
    \/ FetcherNow(MaxOps)
    \/ FetcherExpiry
    \/ getFallbackImages(MaxOps)
    \/ CallStoreImages(MaxOps)
    \/ CallCleanExpiredImages(MaxOps)
    \/ CallSetAllImagesToPermanentCache(MaxOps)
    \/ CallClearAllImages(MaxOps)
    \/ \E i \in 1..MaxOps : EnterBody(i)
    \/ \E i \in 1..MaxOps : storeImages(i)
    \/ \E i \in 1..MaxOps : cleanExpiredImages(i)
    \/ \E i \in 1..MaxOps : setAllImagesToPermanentCache(i)
    \/ \E i \in 1..MaxOps : clearAllImages(i)
    \/ getRandomImageWithDB

SpecStore == InitStore /\ [][NextStore]_vars

(* The history ring: addToHistory and clearHistory behind the write lock *)
NextHistory ==
    \/ Tick
    \/ CallAddToHistory(MaxHistoryOps)
    \/ CallClearHistory(MaxHistoryOps)
    \/ \E i \in 1..MaxHistoryOps : EnterBody(i)
    \/ \E i \in 1..MaxHistoryOps : addToHistory(i)
    \/ \E i \in 1..MaxHistoryOps : clearHistory(i)

SpecHistory == InitStore /\ [][NextHistory]_vars

(* The write lock under all seven mutating operations, at one instant of the clock *)
NextLock ==
    \/ getFallbackImages(MaxLockOps)
    \/ CallStoreImages(MaxLockOps)
    \/ CallCleanExpiredImages(MaxLockOps)
    \/ CallSetAllImagesToPermanentCache(MaxLockOps)
    \/ CallClearAllImages(MaxLockOps)
    \/ CallSetLastFetchTime(MaxLockOps)
    \/ CallAddToHistory(MaxLockOps)
    \/ CallClearHistory(MaxLockOps)
    \/ \E i \in 1..MaxLockOps : EnterBody(i)
    \/ \E i \in 1..MaxLockOps : storeImages(i)
    \/ \E i \in 1..MaxLockOps : cleanExpiredImages(i)
    \/ \E i \in 1..MaxLockOps : setAllImagesToPermanentCache(i)
    \/ \E i \in 1..MaxLockOps : clearAllImages(i)
    \/ \E i \in 1..MaxLockOps : setLastFetchTime(i)
    \/ \E i \in 1..MaxLockOps : addToHistory(i)
    \/ \E i \in 1..MaxLockOps : clearHistory(i)

SpecLock == InitStore /\ [][NextLock]_vars

----------------------------------------------------------------------------
(* Keyword rotation: getNextKeywordSequentially over the two settings strings
   and the cursor kept in chrome.storage.local.  A string is a sequence of
   characters. *)

Chars == {",", " ", "a", "b"}

(* String.prototype.split(",") *)
RECURSIVE splitFrom(_, _)
splitFrom(s, cur) ==
    IF s = <<>> THEN <<cur>>
    ELSE IF Head(s) = "," THEN <<cur>> \o splitFrom(Tail(s), <<>>)
    ELSE splitFrom(Tail(s), Append(cur, Head(s)))

split(s) == splitFrom(s, <<>>)

(* String.prototype.trim *)
RECURSIVE trimStart(_)
trimStart(k) ==
    IF k # <<>> /\ Head(k) = " " THEN trimStart(Tail(k)) ELSE k

RECURSIVE trimEnd(_)
trimEnd(k) ==
    IF k # <<>> /\ k[Len(k)] = " "
    THEN trimEnd(SubSeq(k, 1, Len(k) - 1))
    ELSE k

trim(k) == trimEnd(trimStart(k))

(* .split(",").map((k) => k.trim()) *)
splitTrimmed(s) == LET parts == split(s) IN [i \in 1..Len(parts) |-> trim(parts[i])]

(* Array.prototype.indexOf, counted from 1 *)
indexOf(self, k) ==
    CHOOSE i \in 1..Len(self) : self[i] = k /\ \A j \in 1..(i - 1) : self[j] # k

(* duplicates dropped keeping the last occurrence *)
RECURSIVE firstOccurrences_last(_, _)
firstOccurrences_last(self, i) ==
    IF i > Len(self) THEN <<>>
    ELSE (IF \A j \in (i + 1)..Len(self) : self[j] # self[i]
          THEN <<self[i]>> ELSE <<>>)
         \o firstOccurrences_last(self, i + 1)

(* .filter((k, index, self) => self.indexOf(k) === index) *)
RECURSIVE firstOccurrences(_, _)
firstOccurrences(self, i) ==
    IF i > Len(self) THEN <<>>
    ELSE (IF indexOf(self, self[i]) = i THEN <<self[i]>> ELSE <<>>)
         \o firstOccurrences(self, i + 1)

(* the merged list: both sources split and trimmed, empty entries dropped,
   duplicates dropped keeping the first occurrence *)
allKeywords(u, p) ==
    LET merged == splitTrimmed(u) \o splitTrimmed(p)
        nonEmpty == SelectSeq(merged, LAMBDA k : Len(k) > 0)
    IN  firstOccurrences(nonEmpty, 1)

(* storage: getLastKeywordIndex, index ?? -1 *)
getLastKeywordIndex ==
    IF lastKeywordIndex = {} THEN -1 ELSE CHOOSE n \in lastKeywordIndex : TRUE

(* the cursor written back unchanged *)
NextIndex_noAdvance(lastIndex, L) == (lastIndex + L) % L

(* (lastIndex + 1) % allKeywords.length; lastIndex is -1 or a saved index,
   so the operands are never negative *)
NextIndex(lastIndex, L) == (lastIndex + 1) % L

(* One whole call; calls are consecutive.  The returned keyword is appended
   to kwLog, null being logged as the empty string. *)
getNextKeywordSequentially ==
    /\ Len(kwLog) < MaxKwCalls
    /\ LET all == allKeywords(unsplashKeywords, pexelsKeywords) IN
       IF Len(all) = 0
       THEN /\ kwLog' = Append(kwLog, <<>>)
            /\ UNCHANGED lastKeywordIndex
       ELSE LET nextIndex == NextIndex(getLastKeywordIndex, Len(all)) IN
            /\ lastKeywordIndex' = {nextIndex}
            /\ kwLog' = Append(kwLog, all[nextIndex + 1])
    /\ UNCHANGED <<unsplashKeywords, pexelsKeywords, kwStart>>
    /\ UNCHANGED <<storeVars, refreshVars, dlVars, pipeVars>>

(* The settings hold the default strings or any two strings of at most
   MaxKwLen characters in all; the cursor is unset or was saved by an earlier
   call, possibly over a longer list. *)
InitKw ==
    /\ InitStoreVars /\ InitRefreshVars /\ InitDlVars
    /\ \/ /\ unsplashKeywords = DEFAULT_UNSPLASH_KEYWORDS
          /\ pexelsKeywords = DEFAULT_PEXELS_KEYWORDS
       \/ \E n \in 0..MaxKwLen : \E s \in [1..n -> Chars] : \E cut \in 0..n :
             /\ unsplashKeywords = SubSeq(s, 1, cut)
             /\ pexelsKeywords = SubSeq(s, cut + 1, n)
    /\ lastKeywordIndex \in {{}} \cup {{n} : n \in 0..MaxCursor}
    /\ kwStart = getLastKeywordIndex
    /\ kwLog = <<>>

NextKw == getNextKeywordSequentially

SpecKw == InitKw /\ [][NextKw]_vars

----------------------------------------------------------------------------
(* The downloader: downloadFile and, around it, downloadSingleImage.
   dl holds the one download in progress: the counters of the current
   downloadFile call (attempt, requests, waits, fails, error, status) and
   those of the enclosing downloadSingleImage (outer, total). *)

(* the set without the server errors and the rate limit *)
NON_RETRYABLE_STATUS_CODES_clientOnly == {400, 401, 402, 403, 404, 409, 422}

NON_RETRYABLE_STATUS_CODES ==
    {400, 401, 402, 403, 404, 409, 422, 429, 500, 501, 502, 503}

(* statuses of a response that is not ok: the twelve classified ones and two
   that the set leaves out, 408 and 504 *)
FailureStatuses ==
    {400, 401, 402, 403, 404, 408, 409, 422, 429, 500, 501, 502, 503, 504}

(* what a failed attempt throws: HttpError(status) for a response that is not
   ok, the abort of the timeout, or a rejection of fetch or of response.blob() *)
Failures ==
    {[error |-> "http", status |-> s] : s \in FailureStatuses}
    \cup {[error |-> "timeout", status |-> 0], [error |-> "network", status |-> 0]}

(* err instanceof HttpError && NON_RETRYABLE_STATUS_CODES.has(err.status) *)
NonRetryable(f) == f.error = "http" /\ f.status \in NON_RETRYABLE_STATUS_CODES

(* giving up one attempt early *)
Exhausted_oneEarly(attempt, maxRetries) == attempt >= maxRetries - 1

(* attempt === maxRetries *)
Exhausted(attempt, maxRetries) == attempt = maxRetries

dlUnchanged == UNCHANGED <<storeVars, refreshVars, kwVars, pipeVars>>

(* entry of downloadFile: the loop starts at attempt 0 *)
StartDownloadFile(d, maxRetries) ==
    [d EXCEPT !.pc = IF 0 <= maxRetries THEN "fetch" ELSE "raised",
              !.maxRetries = maxRetries, !.attempt = 0, !.requests = 0,
              !.waits = 0, !.fails = 0,
              !.error = IF 0 <= maxRetries THEN "none" ELSE "unreachable",
              !.status = 0]

(* downloadFile(url, { maxRetries }) called on its own *)
CallDownloadFile ==
    /\ dl.pc = "idle"
    /\ \E maxRetries \in 0..MaxRetriesArg :
          dl' = StartDownloadFile([dl EXCEPT !.mode = "file"], maxRetries)
    /\ dlUnchanged

(* downloadSingleImage: first round of its loop *)
CallDownloadSingleImage ==
    /\ dl.pc = "idle"
    /\ dl' = StartDownloadFile([dl EXCEPT !.mode = "item", !.outer = 0,
                                          !.total = 0],
                               SingleImageMaxRetries)
    /\ dlUnchanged

(* await fetch(url, { signal }) is issued *)
Fetch ==
    /\ dl.pc = "fetch"
    /\ dl' = [dl EXCEPT !.pc = "inflight", !.requests = @ + 1, !.total = @ + 1]
    /\ dlUnchanged

(* the response is ok and its body is read: return blob *)
RespondOk ==
    /\ dl.pc = "inflight"
    /\ dl' = [dl EXCEPT !.pc = "returned"]
    /\ dlUnchanged

(* the attempt fails; the catch block rethrows or goes on to wait *)
RespondFailure ==
    /\ dl.pc = "inflight"
    /\ \E f \in Failures :
          dl' = [dl EXCEPT !.fails = @ + 1, !.error = f.error,
                           !.status = f.status,
                           !.pc = IF NonRetryable(f) THEN "raised"
                                  ELSE IF Exhausted(dl.attempt, dl.maxRetries)
                                       THEN "raised"
                                       ELSE "backoff"]
    /\ dlUnchanged

(* the backoff timer fires; attempt++ and the loop test *)
BackoffDone ==
    /\ dl.pc = "backoff"
    /\ dl' = [dl EXCEPT !.waits = @ + 1, !.attempt = @ + 1,
                        !.pc = IF dl.attempt + 1 <= dl.maxRetries
                               THEN "fetch" ELSE "raised",
                        !.error = IF dl.attempt + 1 <= dl.maxRetries
                                  THEN @ ELSE "unreachable"]
    /\ dlUnchanged

(* downloadSingleImage: downloadFile returned, the item is built *)
ItemReturn ==
    /\ dl.mode = "item"
    /\ dl.pc = "returned"
    /\ dl' = [dl EXCEPT !.pc = "item"]
    /\ dlUnchanged

(* end of a round of downloadSingleImage: attempt++ and the loop test *)
NextRound(d) ==
    IF d.outer + 1 < DEFAULT_MAX_RETRIES
    THEN StartDownloadFile([d EXCEPT !.outer = @ + 1], SingleImageMaxRetries)
    ELSE [d EXCEPT !.outer = @ + 1, !.pc = "null"]

(* downloadSingleImage: catch of whatever downloadFile raised *)
ItemCatch ==
    /\ dl.mode = "item"
    /\ dl.pc = "raised"
    /\ dl' = IF dl.outer < DEFAULT_MAX_RETRIES - 1
             THEN [dl EXCEPT !.pc = "itemBackoff"]
             ELSE NextRound(dl)
    /\ dlUnchanged

(* downloadSingleImage: its own delay is over *)
ItemBackoffDone ==
    /\ dl.pc = "itemBackoff"
    /\ dl' = NextRound(dl)
    /\ dlUnchanged

InitDl == InitStoreVars /\ InitRefreshVars /\ InitKwVars /\ InitDlVars

NextDl ==
    \/ CallDownloadFile
    \/ CallDownloadSingleImage
    \/ Fetch
    \/ RespondOk
    \/ RespondFailure
    \/ BackoffDone
    \/ ItemReturn
    \/ ItemCatch
    \/ ItemBackoffDone

SpecDl == InitDl /\ [][NextDl]_vars

----------------------------------------------------------------------------
(* The refresh controller: refreshImages of the background service worker.
   Each invocation is a call that advances from one await to the next; calls
   are numbered in order of arrival.  calls[c].during is the call that was
   Running when c arrived (0 when none was); calls[c].invoked and cycle count
   the invocations of the housekeeping operations, fetchAllImages,
   storeImages and setLastFetchTime, per call and in all. *)

RefreshCalls == 1..MaxRefreshCalls

Running(c) == calls[c].pc \notin {"idle", "skipped", "done"}

(* the guard never taken *)
AlreadyFetching_ignored == FALSE

(* if (backgroundState.isFetching) *)
AlreadyFetching == isFetching

(* a store operation of the cycle rejected: the try block is left for the
   catch clause, or the emergency block for its own catch clause *)
StoreRejected(op, pc) ==
    \/ op \in {"housekeeping", "storeImages", "setLastFetchTime"} /\ pc = "emergency"
    \/ op = "storeImages" /\ pc = "finally"

(* the call moves to its next await, having invoked op ("" for a step that
   invokes none of the four) *)
Advance(c, op, pc) ==
    /\ calls' = [calls EXCEPT ![c].pc = pc,
                              ![c].storeError = @ \/ StoreRejected(op, pc),
                              ![c].invoked =
                                  IF op = "" THEN @ ELSE [@ EXCEPT ![op] = @ + 1]]
    /\ cycle' = IF op = "" THEN cycle ELSE [cycle EXCEPT ![op] = @ + 1]
    /\ UNCHANGED isFetching
    /\ UNCHANGED <<storeVars, kwVars, dlVars, pipeVars>>

(* entry: the guard, and backgroundState.isFetching = true *)
refreshImages(c) ==
    /\ calls[c].pc = "idle"
    /\ \A b \in 1..(c - 1) : calls[b].pc # "idle"
    /\ LET during == IF \E b \in RefreshCalls : Running(b)
                     THEN CHOOSE b \in RefreshCalls : Running(b)
                     ELSE 0
       IN  IF AlreadyFetching
           THEN /\ calls' = [calls EXCEPT ![c].pc = "skipped",
                                          ![c].during = during,
                                          ![c].told = "success"]
                /\ UNCHANGED isFetching
           ELSE /\ calls' = [calls EXCEPT ![c].pc = "settings",
                                          ![c].during = during]
                /\ isFetching' = TRUE
    /\ UNCHANGED cycle
    /\ UNCHANGED <<storeVars, kwVars, dlVars, pipeVars>>

(* chrome.storage.local.get(['settings']): settings.cache?.permanentMode *)
ReadSettings(c) ==
    /\ calls[c].pc = "settings"
    /\ \E permanentCacheEnabled \in BOOLEAN :
          Advance(c, "", IF permanentCacheEnabled THEN "permanent" ELSE "clean")

(* await setAllImagesToPermanentCache() *)
RetagPermanent(c) ==
    /\ calls[c].pc = "permanent"
    /\ \E ok \in BOOLEAN :
          Advance(c, "housekeeping", IF ok THEN "clean" ELSE "emergency")

(* await cleanExpiredImages() *)
CleanExpired(c) ==
    /\ calls[c].pc = "clean"
    /\ \E ok \in BOOLEAN :
          Advance(c, "housekeeping", IF ok THEN "stats" ELSE "emergency")

(* await getDatabaseStats() *)
DatabaseStats(c) ==
    /\ calls[c].pc = "stats"
    /\ \E ok \in BOOLEAN :
          Advance(c, "", IF ok THEN "strategy" ELSE "emergency")

(* await getImageSourceStrategy(): allowApiCalls defaults to false, so the
   answer is cached, placeholder or fallback *)
SourceStrategy(c) ==
    /\ calls[c].pc = "strategy"
    /\ \E strategy \in {"cached", "placeholder", "fallback"} :
          Advance(c, "", IF strategy \in {"placeholder", "fallback"}
                         THEN "fallbackSystem" ELSE "fetch")

(* images = await fetchAllImages(), or its rejection caught *)
FetchAllImages(c) ==
    /\ calls[c].pc = "fetch"
    /\ \E outcome \in {"images", "empty", "throw"} :
          Advance(c, "fetchAllImages",
                  CASE outcome = "images" -> "store"
                    [] outcome = "empty" -> "noImages"
                    [] outcome = "throw" -> "fallbackSystem")

(* images = await getImagesWithFallback(true): the cache, then fetchAllImages
   (allowed here), then the fallback URLs, then the placeholder; it never
   returns an empty list *)
ImagesWithFallback(c) ==
    /\ calls[c].pc = "fallbackSystem"
    /\ \E viaApi \in BOOLEAN : \E ok \in BOOLEAN :
          Advance(c, IF viaApi THEN "fetchAllImages" ELSE "",
                  IF ok THEN "store" ELSE "emergency")

(* await storeImages(images) *)
StoreFetched(c) ==
    /\ calls[c].pc = "store"
    /\ \E ok \in BOOLEAN :
          Advance(c, "storeImages", IF ok THEN "setLast" ELSE "emergency")

(* await setLastFetchTime(now) *)
SetLastFetch(c) ==
    /\ calls[c].pc = "setLast"
    /\ \E ok \in BOOLEAN :
          Advance(c, "setLastFetchTime", IF ok THEN "count" ELSE "emergency")

(* await getValidImageCount() *)
ValidCount(c) ==
    /\ calls[c].pc = "count"
    /\ \E ok \in BOOLEAN :
          Advance(c, "", IF ok THEN "finally" ELSE "emergency")

(* no images obtained: await getAllValidImages() *)
NoImagesObtained(c) ==
    /\ calls[c].pc = "noImages"
    /\ \E ok \in BOOLEAN :
          Advance(c, "", IF ok THEN "finally" ELSE "emergency")

(* catch: await getAllValidImages(), then getFallbackImages() when the
   cache is empty *)
Emergency(c) ==
    /\ calls[c].pc = "emergency"
    /\ \E haveFallback \in BOOLEAN :
          Advance(c, "", IF haveFallback THEN "emergencyStore" ELSE "finally")

(* catch: await storeImages(emergencyImages) *)
EmergencyStore(c) ==
    /\ calls[c].pc = "emergencyStore"
    /\ \E ok \in BOOLEAN :
          Advance(c, "storeImages", IF ok THEN "emergencySetLast" ELSE "finally")

(* catch: await setLastFetchTime(Date.now()) *)
EmergencySetLast(c) ==
    /\ calls[c].pc = "emergencySetLast"
    /\ Advance(c, "setLastFetchTime", "finally")

(* the finally clause left without clearing the flag *)
FlagAfterCycle_kept == isFetching

(* finally: backgroundState.isFetching = false *)
FlagAfterCycle == FALSE

(* finally: backgroundState.isFetching = false. Both catch clauses have
   consumed whatever was thrown, so the promise resolves and the trigger's
   then-callback runs: sendResponse({ success: true }) *)
Finally(c) ==
    /\ calls[c].pc = "finally"
    /\ calls' = [calls EXCEPT ![c].pc = "done", ![c].told = "success"]
    /\ isFetching' = FlagAfterCycle
    /\ UNCHANGED cycle
    /\ UNCHANGED <<storeVars, kwVars, dlVars, pipeVars>>

InitRefresh == InitStoreVars /\ InitRefreshVars /\ InitKwVars /\ InitDlVars

NextRefresh ==
    \/ \E c \in RefreshCalls : refreshImages(c)
    \/ \E c \in RefreshCalls : ReadSettings(c)
    \/ \E c \in RefreshCalls : RetagPermanent(c)
    \/ \E c \in RefreshCalls : CleanExpired(c)
    \/ \E c \in RefreshCalls : DatabaseStats(c)
    \/ \E c \in RefreshCalls : SourceStrategy(c)
    \/ \E c \in RefreshCalls : FetchAllImages(c)
    \/ \E c \in RefreshCalls : ImagesWithFallback(c)
    \/ \E c \in RefreshCalls : StoreFetched(c)
    \/ \E c \in RefreshCalls : SetLastFetch(c)
    \/ \E c \in RefreshCalls : ValidCount(c)
    \/ \E c \in RefreshCalls : NoImagesObtained(c)
    \/ \E c \in RefreshCalls : Emergency(c)
    \/ \E c \in RefreshCalls : EmergencyStore(c)
    \/ \E c \in RefreshCalls : EmergencySetLast(c)
    \/ \E c \in RefreshCalls : Finally(c)

SpecRefresh == InitRefresh /\ [][NextRefresh]_vars

(* one step of a call that is past its entry: the operation it awaits settles *)
Continue(c) ==
    \/ ReadSettings(c) \/ RetagPermanent(c) \/ CleanExpired(c) \/ DatabaseStats(c)
    \/ SourceStrategy(c) \/ FetchAllImages(c) \/ ImagesWithFallback(c)
    \/ StoreFetched(c) \/ SetLastFetch(c) \/ ValidCount(c) \/ NoImagesObtained(c)
    \/ Emergency(c) \/ EmergencyStore(c) \/ EmergencySetLast(c) \/ Finally(c)

(* every operation a cycle awaits settles (storage requests complete, network
   requests carry a timeout), so the call that can continue does *)
SpecRefreshLive ==
    SpecRefresh /\ WF_vars(\E c \in RefreshCalls : Continue(c))

----------------------------------------------------------------------------
(* A provider fetcher: fetchUnsplashImages / fetchPexelsImages.  The metadata
   request answers with M entries; every entry is handed to
   downloadSingleImage at once and the promises are awaited with
   Promise.allSettled.  item[i] is the state of the promise of entry i:
   pending, downloaded (fulfilled with an item), null (fulfilled with null
   when its retries are used up) or rejected. *)

provUnchanged == UNCHANGED <<storeVars, refreshVars, kwVars, dlVars, fa, cy, sel, tx, rd,
                             tab, ctl>>

(* the wait of Promise.all: over at the first rejection *)
AllSettled_untilRejection(item) ==
    \/ \A i \in DOMAIN item : item[i] # "pending"
    \/ \E i \in DOMAIN item : item[i] = "rejected"

(* await Promise.allSettled(downloadPromises) *)
AllSettled(item) == \A i \in DOMAIN item : item[i] # "pending"

(* result.status === "fulfilled" && result.value !== null *)
Successful(item) == {i \in DOMAIN item : item[i] = "downloaded"}

(* entry of the fetcher: offline it returns [] at once, otherwise the
   metadata request is issued *)
CallProvider ==
    /\ prov.pc = "idle"
    /\ \E onLine \in BOOLEAN :
          prov' = [prov EXCEPT !.pc = IF onLine THEN "metadata" ELSE "returned"]
    /\ provUnchanged

(* the metadata request rejects, answers with a status that is not ok, or
   its body is not the expected JSON: catch, return [] *)
MetadataFails ==
    /\ prov.pc = "metadata"
    /\ prov' = [prov EXCEPT !.pc = "returned", !.result = {}]
    /\ provUnchanged

(* the metadata arrives: data.map(photo => downloadSingleImage(...)) *)
MetadataArrives ==
    /\ prov.pc = "metadata"
    /\ \E M \in 0..MaxBatch :
          prov' = [prov EXCEPT !.pc = "downloads", !.M = M,
                               !.item = [i \in 1..M |-> "pending"],
                               !.attempted = 1..M]
    /\ provUnchanged

(* the promise of one entry settles *)
ItemSettles ==
    /\ prov.pc = "downloads"
    /\ \E i \in DOMAIN prov.item :
          /\ prov.item[i] = "pending"
          /\ \E outcome \in {"downloaded", "null", "rejected"} :
                prov' = [prov EXCEPT !.item[i] = outcome]
    /\ provUnchanged

(* allSettled resolves: results.forEach(...), return successfulImages *)
CollectResults ==
    /\ prov.pc = "downloads"
    /\ AllSettled(prov.item)
    /\ prov' = [prov EXCEPT !.pc = "returned", !.result = Successful(prov.item)]
    /\ provUnchanged

InitBatch == InitStoreVars /\ InitRefreshVars /\ InitKwVars /\ InitDlVars

NextBatch ==
    \/ CallProvider
    \/ MetadataFails
    \/ MetadataArrives
    \/ ItemSettles
    \/ CollectResults

SpecBatch == InitBatch /\ [][NextBatch]_vars

----------------------------------------------------------------------------
(* fetchAllImages(settings): one provider invocation per configured key, all
   awaited with Promise.all.  Items are counted, not told apart: attempted is
   the number of metadata entries handed to downloadSingleImage, actual the
   number of items the providers returned, requests the number of metadata
   requests issued. *)

faUnchanged == UNCHANGED <<storeVars, refreshVars, kwVars, dlVars, prov, cy, sel, tx, rd,
                           tab, ctl>>

(* a provider invoked even without a key *)
Invocations_atLeastOne(keys) == IF keys = 0 THEN 1 ELSE keys

(* settings.apiKeys.unsplash.map((key) => fetchUnsplashImages(key, ...)) *)
Invocations(keys) == keys

(* the wait over as soon as the invocations of one provider are done *)
Joined_oneProvider(f) == f.pendingU = 0 \/ f.pendingP = 0

(* await Promise.all(promises) with promises that never reject *)
Joined(f) == f.pendingU = 0 /\ f.pendingP = 0

(* allImages.length < expectedTotalImages * 0.8; the double product equals
   the exact 4/5 of expected for every expected below 600 *)
LowSuccess(actual, expected) == 5 * actual < 4 * expected

(* sizes of the metadata answer: empty, one entry, 25 entries, the full
   count asked for *)
BatchSizes(count) == {0, 1, 25, count}

(* entry: offline it returns [] at once *)
CallFetchAllImages ==
    /\ fa.pc = "idle"
    /\ \E u \in 0..MaxKeys, p \in 0..MaxKeys, onLine \in BOOLEAN :
          fa' = [fa EXCEPT !.pc = IF onLine THEN "keyword" ELSE "returned",
                           !.onLine = onLine,
                           !.cursor0 = getLastKeywordIndex,
                           !.unsplashKeys = u, !.pexelsKeys = p,
                           !.expected = u * UNSPLASH_IMAGES_COUNT
                                        + p * PEXELS_IMAGES_COUNT]
    /\ faUnchanged

(* await getNextKeywordSequentially(...), then the provider invocations are
   started; with none, return [] *)
StartProviders ==
    /\ fa.pc = "keyword"
    /\ LET u == Invocations(fa.unsplashKeys)
           p == Invocations(fa.pexelsKeys)
       IN  fa' = [fa EXCEPT !.pc = IF u + p = 0 THEN "returned" ELSE "providers",
                            !.pendingU = u, !.pendingP = p]
    /\ faUnchanged

(* one provider invocation found the browser offline: [] without a request *)
ProviderOffline ==
    /\ fa.pc = "providers"
    /\ \E kind \in {"unsplash", "pexels"} :
          /\ (IF kind = "unsplash" THEN fa.pendingU ELSE fa.pendingP) > 0
          /\ fa' = IF kind = "unsplash"
                   THEN [fa EXCEPT !.pendingU = @ - 1]
                   ELSE [fa EXCEPT !.pendingP = @ - 1]
    /\ faUnchanged

(* one provider invocation whose metadata request failed: [] *)
ProviderFails ==
    /\ fa.pc = "providers"
    /\ \E kind \in {"unsplash", "pexels"} :
          /\ (IF kind = "unsplash" THEN fa.pendingU ELSE fa.pendingP) > 0
          /\ fa' = IF kind = "unsplash"
                   THEN [fa EXCEPT !.pendingU = @ - 1, !.requests = @ + 1,
                                   !.failed = @ + 1]
                   ELSE [fa EXCEPT !.pendingP = @ - 1, !.requests = @ + 1,
                                   !.failed = @ + 1]
    /\ faUnchanged

(* one provider invocation received M entries and returns the r of them
   whose download succeeded *)
ProviderReturns ==
    /\ fa.pc = "providers"
    /\ \E kind \in {"unsplash", "pexels"} :
          /\ (IF kind = "unsplash" THEN fa.pendingU ELSE fa.pendingP) > 0
          /\ \E M \in BatchSizes(IF kind = "unsplash" THEN UNSPLASH_IMAGES_COUNT
                                                       ELSE PEXELS_IMAGES_COUNT) :
             \E r \in 0..M :
                fa' = IF kind = "unsplash"
                      THEN [fa EXCEPT !.pendingU = @ - 1, !.requests = @ + 1,
                                      !.attempted = @ + M, !.actual = @ + r]
                      ELSE [fa EXCEPT !.pendingP = @ - 1, !.requests = @ + 1,
                                      !.attempted = @ + M, !.actual = @ + r]
    /\ faUnchanged

(* Promise.all resolves: results.flat(), the low-success warning, return *)
ReturnAllImages ==
    /\ fa.pc = "providers"
    /\ Joined(fa)
    /\ fa' = [fa EXCEPT !.pc = "returned", !.returned = fa.actual,
                        !.warned = LowSuccess(fa.actual, fa.expected)]
    /\ faUnchanged

(* refreshImages receives the list: with items it stores them and sets the
   last-fetch time, with none it keeps the cache; a rejection in either
   branch is caught by the emergency fallback, and finally ends the cycle *)
RefreshReceives ==
    /\ fa.pc = "returned"
    /\ \E ok \in BOOLEAN :
          fa' = [fa EXCEPT !.pc = "received",
                           !.cycle = IF ~ok THEN "emergency"
                                     ELSE IF fa.returned > 0 THEN "stored"
                                     ELSE "kept"]
    /\ faUnchanged

InitFetch == InitStoreVars /\ InitRefreshVars /\ InitKwVars /\ InitDlVars

NextFetch ==
    \/ CallFetchAllImages
    \/ StartProviders
    \/ ProviderOffline
    \/ ProviderFails
    \/ ProviderReturns
    \/ ReturnAllImages
    \/ RefreshReceives

SpecFetch == InitFetch /\ [][NextFetch]_vars

----------------------------------------------------------------------------
(* One refresh cycle together with the store it works on: refreshImages,
   with each awaited store operation as one atomic step. *)

CycleIds == 1..MaxItems

(* the ids of the records of imgs that the valid side of the index holds at t *)
validIds(imgs, t) ==
    {id \in DOMAIN imgs : imgs[id] # NoImage /\ lowerBound(t, imgs[id].expiresAt)}

storedIds(imgs) == {id \in DOMAIN imgs : imgs[id] # NoImage}

(* store.add in place of store.put: an existing key is kept *)
putAll_addOnly(imgs, batch) ==
    [id \in DOMAIN imgs |->
        IF imgs[id] = NoImage /\ \E r \in batch : r.id = id
        THEN CHOOSE r \in batch : r.id = id
        ELSE imgs[id]]

(* storeImages: store.put(image) for every image of the batch *)
putAll(imgs, batch) ==
    [id \in DOMAIN imgs |->
        IF \E r \in batch : r.id = id
        THEN CHOOSE r \in batch : r.id = id
        ELSE imgs[id]]

(* getHistoryImageById: store.get(imageId), request.result || null *)
getHistoryImageById(imgs, imageId) ==
    IF imageId \in DOMAIN imgs THEN imgs[imageId] ELSE NoImage

(* the permanent expiry taken as the current time *)
permanentExpiryDate_now(t) == t

(* setAllImagesToPermanentCache: Date.now() + PERMANENT_CACHE_EXPIRY_MS *)
permanentExpiryDate(t) == t + PERMANENT_CACHE_EXPIRY_MS

(* ... and its cursor: image.expiresAt = permanentExpiryDate; cursor.update *)
retagAll(imgs, t) ==
    [id \in DOMAIN imgs |->
        IF imgs[id] = NoImage THEN NoImage
        ELSE [imgs[id] EXCEPT !.expiresAt = permanentExpiryDate(t)]]

(* the sweep removing every record, whatever its expiry *)
sweepRange_all(t, key) == TRUE

(* cleanExpiredImages: IDBKeyRange.upperBound(now) over the expiresAt index *)
sweepRange(t, key) == upperBound(t, key)

sweepAll(imgs, t) ==
    [id \in DOMAIN imgs |->
        IF imgs[id] # NoImage /\ sweepRange(t, imgs[id].expiresAt) THEN NoImage
        ELSE imgs[id]]

(* the records a fetcher builds for the items it obtained at time t *)
Obtained(ids, permanent, t) ==
    {[id |-> i, timestamp |-> t, expiresAt |-> computeExpiry(permanent, t)] : i \in ids}

(* the id sets of a fetch result: 0 to MaxItems items, named from 1 up (the
   initial store holds any subset of the ids, so every overlap occurs) *)
Results == {1..n : n \in 0..MaxItems}
NonEmptyResults == Results \ {{}}

(* fetchAllImages issues provider requests for every key *)
ProviderRequests_withoutKeys(hasKeys) == TRUE

(* fetchAllImages: a provider promise is pushed only for a configured key *)
ProviderRequests(hasKeys) == hasKeys

(* the step after storeImages when its rejection is ignored *)
AfterStore_regardless(ok) == "setLast"

(* await storeImages(images): a rejection leaves the try block *)
AfterStore(ok) == IF ok THEN "setLast" ELSE "emergency"

(* the emergency images stored whatever the cache holds *)
NeedsEmergencyImages_always(existing) == TRUE

(* emergency fallback: if (existingImages.length === 0) *)
NeedsEmergencyImages(existing) == existing = {}

cycleFrame ==
    UNCHANGED <<now, ticks, history, historyKey, dbWriteLock, resolved, ops,
                fetched, lastPick, lastSweep, lastAppend, refreshVars, kwVars,
                dlVars, prov, fa, sel, tx, rd, tab, ctl>>

(* options page: the settings are saved to chrome.storage; the background
   only counts the settingsUpdated message *)
saveSettings ==
    /\ cy' = [cy EXCEPT !.permanentMode = ~cy.permanentMode,
                        !.switchedOff = @ \/ cy.permanentMode]
    /\ UNCHANGED <<images, lastFetch>>
    /\ cycleFrame

(* refreshImages: isFetching = true *)
BeginCycle ==
    /\ cy.pc = "idle"
    /\ cy' = [cy EXCEPT !.pc = "settings", !.lastFetch0 = lastFetch,
                        !.held0 = storedIds(images)]
    /\ UNCHANGED <<images, lastFetch>>
    /\ cycleFrame

(* step 1: settings.cache?.permanentMode ?? false *)
LoadSettings ==
    /\ cy.pc = "settings"
    /\ cy' = [cy EXCEPT !.mode = cy.permanentMode,
                        !.pc = IF cy.permanentMode THEN "permanent" ELSE "clean"]
    /\ UNCHANGED <<images, lastFetch>>
    /\ cycleFrame

(* const updatedCount = await setAllImagesToPermanentCache() *)
ApplyPermanentMode ==
    /\ cy.pc = "permanent"
    /\ \E ok \in BOOLEAN :
          IF ok
          THEN /\ images' = retagAll(images, now)
               /\ cy' = [cy EXCEPT !.pc = "clean",
                                   !.updatedCount = Cardinality(storedIds(images))]
          ELSE /\ images' = images
               /\ cy' = [cy EXCEPT !.pc = "emergency"]
    /\ UNCHANGED lastFetch
    /\ cycleFrame

(* step 2: const deletedCount = await cleanExpiredImages() *)
SweepExpired ==
    /\ cy.pc = "clean"
    /\ \E ok \in BOOLEAN :
          IF ok
          THEN /\ images' = sweepAll(images, now)
               /\ cy' = [cy EXCEPT !.pc = "stats",
                                   !.removed = storedIds(images) \ storedIds(images')]
          ELSE /\ images' = images
               /\ cy' = [cy EXCEPT !.pc = "emergency"]
    /\ UNCHANGED lastFetch
    /\ cycleFrame

(* const dbStats = await getDatabaseStats() *)
ReadStats ==
    /\ cy.pc = "stats"
    /\ \E ok \in BOOLEAN : cy' = [cy EXCEPT !.pc = IF ok THEN "strategy" ELSE "emergency"]
    /\ UNCHANGED <<images, lastFetch>>
    /\ cycleFrame

(* step 3: getImageSourceStrategy() with allowApiCalls = false; a count that
   fails is caught and read as no cached image *)
ChooseStrategy ==
    /\ cy.pc = "strategy"
    /\ \E countOk \in BOOLEAN :
          LET cached == countOk /\ validIds(images, now) # {} IN
          cy' = [cy EXCEPT !.pc = IF cached THEN "fetch" ELSE "fallbackSystem",
                           !.before = images]
    /\ UNCHANGED <<images, lastFetch>>
    /\ cycleFrame

(* strategy cached: images = await fetchAllImages(); a rejection is caught
   and getImagesWithFallback(true) is used *)
FetchFromProviders ==
    /\ cy.pc = "fetch"
    /\ \E ok \in BOOLEAN, ids \in Results :
          LET requests == ProviderRequests(cy.hasKeys)
              items == IF requests /\ cy.onLine /\ ok
                       THEN Obtained(ids, cy.permanentMode, now) ELSE {}
          IN  IF requests /\ ~ok
              THEN cy' = [cy EXCEPT !.pc = "fallbackSystem", !.api = TRUE]
              ELSE cy' = [cy EXCEPT !.pc = IF items # {} THEN "store" ELSE "noImages",
                                    !.api = @ \/ requests,
                                    !.batch = items,
                                    !.yielded = Cardinality(items)]
    /\ UNCHANGED <<images, lastFetch>>
    /\ cycleFrame

(* getImagesWithFallback(true): cached, then api, then fallback URLs, then
   the generated placeholder; it never returns an empty list *)
FallbackSystem ==
    /\ cy.pc = "fallbackSystem"
    /\ \E countOk \in BOOLEAN, readOk \in BOOLEAN, rateLimited \in BOOLEAN,
          apiOk \in BOOLEAN, ids \in NonEmptyResults :
          LET valid == validIds(images, now)
              cached == countOk /\ valid # {}
              seen == IF ~countOk THEN "failed"
                      ELSE IF valid = {} THEN "empty"
                      ELSE IF readOk THEN "valid" ELSE "failed"
              placeholder == ~cached /\ ~cy.onLine
              apiBranch == \/ cached /\ ~readOk
                           \/ ~cached /\ cy.onLine /\ cy.hasKeys /\ ~rateLimited
              requests == apiBranch /\ ProviderRequests(cy.hasKeys)
              apiImages == requests /\ cy.onLine /\ apiOk
              fallbackUrls == seen # "valid" /\ ~placeholder /\ ~apiImages /\ cy.onLine
          IN  cy' = [cy EXCEPT
                       !.pc = "store",
                       !.seen = seen,
                       !.api = @ \/ requests,
                       !.other = @ \/ fallbackUrls,
                       !.batch = IF seen = "valid"
                                 THEN {images[id] : id \in valid}
                                 ELSE Obtained(ids, cy.permanentMode, now),
                       !.yielded = IF seen = "valid" THEN Cardinality(valid)
                                   ELSE Cardinality(ids)]
    /\ UNCHANGED <<images, lastFetch>>
    /\ cycleFrame

(* step 4: await storeImages(images) *)
StoreImages ==
    /\ cy.pc = "store"
    /\ \E ok \in BOOLEAN :
          /\ images' = IF ok THEN putAll(images, cy.batch) ELSE images
          /\ cy' = [cy EXCEPT !.pc = AfterStore(ok),
                              !.storeCalled = TRUE,
                              !.storedOk = @ \/ ok]
    /\ UNCHANGED lastFetch
    /\ cycleFrame

(* const now = Date.now(); await setLastFetchTime(now) *)
RecordLastFetch ==
    /\ cy.pc = "setLast"
    /\ \E ok \in BOOLEAN :
          /\ lastFetch' = IF ok THEN {now} ELSE lastFetch
          /\ cy' = [cy EXCEPT !.pc = IF ok THEN "count" ELSE "emergency",
                              !.setLastCalled = TRUE,
                              !.setLastDone = @ \/ ok]
    /\ UNCHANGED images
    /\ cycleFrame

(* const validCount = await getValidImageCount() *)
CountValid ==
    /\ cy.pc = "count"
    /\ \E ok \in BOOLEAN : cy' = [cy EXCEPT !.pc = IF ok THEN "finally" ELSE "emergency"]
    /\ UNCHANGED <<images, lastFetch>>
    /\ cycleFrame

(* images.length === 0: const existingImages = await getAllValidImages() *)
KeepCache ==
    /\ cy.pc = "noImages"
    /\ \E ok \in BOOLEAN :
          cy' = IF ok
                THEN [cy EXCEPT !.pc = "finally",
                                !.seen = IF validIds(images, now) = {} THEN "empty"
                                         ELSE "valid"]
                ELSE [cy EXCEPT !.pc = "emergency"]
    /\ UNCHANGED <<images, lastFetch>>
    /\ cycleFrame

(* catch: existingImages = await getAllValidImages(); with none,
   emergencyImages = await getFallbackImages() *)
EmergencyRead ==
    /\ cy.pc = "emergency"
    /\ \E ok \in BOOLEAN, ids \in NonEmptyResults :
          IF ok /\ NeedsEmergencyImages(validIds(images, now))
          THEN cy' = [cy EXCEPT !.pc = "emergencyStore",
                                !.seen = "empty",
                                !.other = @ \/ cy.onLine,
                                !.batch = Obtained(ids, cy.permanentMode, now)]
          ELSE cy' = [cy EXCEPT !.pc = "finally"]
    /\ UNCHANGED <<images, lastFetch>>
    /\ cycleFrame

(* await storeImages(emergencyImages) *)
EmergencyStoreImages ==
    /\ cy.pc = "emergencyStore"
    /\ \E ok \in BOOLEAN :
          /\ images' = IF ok THEN putAll(images, cy.batch) ELSE images
          /\ cy' = [cy EXCEPT !.pc = IF ok THEN "emergencySetLast" ELSE "finally",
                              !.storeCalled = TRUE,
                              !.storedOk = @ \/ ok]
    /\ UNCHANGED lastFetch
    /\ cycleFrame

(* await setLastFetchTime(Date.now()) *)
EmergencyRecordLastFetch ==
    /\ cy.pc = "emergencySetLast"
    /\ \E ok \in BOOLEAN :
          /\ lastFetch' = IF ok THEN {now} ELSE lastFetch
          /\ cy' = [cy EXCEPT !.pc = "finally",
                              !.setLastCalled = TRUE,
                              !.setLastDone = @ \/ ok]
    /\ UNCHANGED images
    /\ cycleFrame

(* finally: isFetching = false; the local images list is gone *)
EndCycle ==
    /\ cy.pc = "finally"
    /\ cy' = [cy EXCEPT !.pc = "done", !.batch = {}, !.before = <<>>]
    /\ UNCHANGED <<images, lastFetch>>
    /\ cycleFrame

(* The store was filled at hour 0, in either cache mode, and the cycle starts
   at hour t with any settings and connectivity. *)
InitCycleAt(t) ==
    /\ now = t
    /\ ticks = 0
    /\ \E held \in SUBSET CycleIds, permanent \in [CycleIds -> BOOLEAN] :
          /\ images = [id \in CycleIds |->
                         IF id \in held
                         THEN [id |-> id, timestamp |-> 0,
                               expiresAt |-> computeExpiry(permanent[id], 0)]
                         ELSE NoImage]
          /\ lastFetch = IF held = {} THEN {} ELSE {0}
    /\ history = {}
    /\ historyKey = 0
    /\ dbWriteLock = 0
    /\ resolved = {0}
    /\ ops = <<>>
    /\ fetched = NoFetch
    /\ lastPick = NoPick
    /\ lastSweep = NoSweep
    /\ lastAppend = NoAppend
    /\ InitRefreshVars
    /\ InitKwVars
    /\ dl = NoDownload
    /\ prov = NoProvider
    /\ fa = NoFetchAll
    /\ sel = NoSelection
    /\ tx = NoTransaction
    /\ rd = NoRead
    /\ tab = NoTab
    /\ ctl = NoControl
    /\ \E permanentMode \in BOOLEAN, hasKeys \in BOOLEAN, onLine \in BOOLEAN :
          cy = [NoCycle EXCEPT !.permanentMode = permanentMode,
                               !.hasKeys = hasKeys, !.onLine = onLine]

NextCycle ==
    \/ Tick
    \/ saveSettings
    \/ BeginCycle
    \/ LoadSettings
    \/ ApplyPermanentMode
    \/ SweepExpired
    \/ ReadStats
    \/ ChooseStrategy
    \/ FetchFromProviders
    \/ FallbackSystem
    \/ StoreImages
    \/ RecordLastFetch
    \/ CountValid
    \/ KeepCache
    \/ EmergencyRead
    \/ EmergencyStoreImages
    \/ EmergencyRecordLastFetch
    \/ EndCycle

InitCycle == InitCycleAt(0)

SpecCycle == InitCycle /\ [][NextCycle]_vars

(* The same cycle started an hour after the store was filled, so that an item
   with the normal TTL can run out between two steps of the cycle. *)
InitCycleLater == InitCycleAt(1)

SpecCycleLater == InitCycleLater /\ [][NextCycle]_vars

----------------------------------------------------------------------------
(* The image-source selection of the fallback module: getImageSourceStrategy,
   getImagesWithFallback and getFallbackImages, one call at a time. The cache,
   the providers, the fallback downloads and the canvas are the environment:
   each read, fetch and generation succeeds or fails freely. *)

selUnchanged ==
    UNCHANGED <<storeVars, refreshVars, kwVars, dlVars, prov, fa, cy, tx, rd,
                tab, ctl>>

(* the api branch open whatever the caller passed *)
ApiAllowed_always(allowApiCalls) == TRUE

(* if (allowApiCalls && ...) in getImageSourceStrategy, if (allowApiCalls)
   in the api case of getImagesWithFallback *)
ApiAllowed(allowApiCalls) == allowApiCalls

(* shouldUseFallbackImages: !hasApiKeys || isRateLimited *)
shouldUseFallbackImages(hasKeys, rateLimited) == ~hasKeys \/ rateLimited

(* getImageSourceStrategy for a count of valid images that was positive
   ("valid"), zero ("empty") or rejected ("failed") *)
getImageSourceStrategy(count, onLine, allowApiCalls, hasKeys, rateLimited) ==
    IF count = "valid" THEN "cached"
    ELSE IF ~onLine THEN "placeholder"
    ELSE IF ApiAllowed(allowApiCalls) /\ ~shouldUseFallbackImages(hasKeys, rateLimited)
         THEN "api"
    ELSE "fallback"

(* getFallbackImages of src/fallback: offline, or with no download that
   succeeded, it returns [] *)
getFallbackImagesCurrent(onLine, downloaded) ==
    IF onLine /\ downloaded > 0 THEN "images" ELSE "empty"

(* getFallbackImages of the earlier module: offline, or with no download that
   succeeded, it returns the generated placeholder, and rejects when the
   generation throws *)
getFallbackImagesEarlier(onLine, downloaded, generated) ==
    IF onLine /\ downloaded > 0 THEN "images"
    ELSE IF generated THEN "placeholder"
    ELSE "raised"

(* nothing returned when the placeholder cannot be generated *)
LastResort_none(generated) == IF generated THEN "placeholder" ELSE "none"

(* the outer catch of getImagesWithFallback: the placeholder again, and the
   minimal record with id emergency_fallback when that throws as well *)
LastResort(generated) == IF generated THEN "placeholder" ELSE "emergency_fallback"

Sources == <<"cached", "network", "fallback", "placeholder">>
Rank(source) == CHOOSE i \in 1..Len(Sources) : Sources[i] = source

Return(result, n) ==
    [sel EXCEPT !.pc = "returned", !.result = result,
                !.items = IF result \in {"none", "empty"} THEN 0 ELSE n]

(* a caller asks for the strategy only *)
CallGetImageSourceStrategy ==
    /\ sel.pc = "idle"
    /\ \E allowApiCalls \in BOOLEAN, onLine \in BOOLEAN, hasKeys \in BOOLEAN,
          rateLimited \in BOOLEAN, count \in {"valid", "empty", "failed"} :
          sel' = [sel EXCEPT
                    !.pc = "returned", !.fn = "getImageSourceStrategy",
                    !.allowApiCalls = allowApiCalls, !.onLine = onLine,
                    !.hasKeys = hasKeys, !.rateLimited = rateLimited,
                    !.strategy = getImageSourceStrategy(count, onLine, allowApiCalls,
                                                        hasKeys, rateLimited)]
    /\ selUnchanged

(* getImagesWithFallback(allowApiCalls) *)
CallGetImagesWithFallback ==
    /\ sel.pc = "idle"
    /\ \E allowApiCalls \in BOOLEAN, onLine \in BOOLEAN, hasKeys \in BOOLEAN,
          rateLimited \in BOOLEAN :
          sel' = [sel EXCEPT
                    !.pc = "strategy", !.fn = "getImagesWithFallback",
                    !.allowApiCalls = allowApiCalls, !.onLine = onLine,
                    !.hasKeys = hasKeys, !.rateLimited = rateLimited]
    /\ selUnchanged

(* const strategy = await getImageSourceStrategy(allowApiCalls); switch *)
SelectStrategy ==
    /\ sel.pc = "strategy"
    /\ \E count \in {"valid", "empty", "failed"} :
          LET strategy == getImageSourceStrategy(count, sel.onLine, sel.allowApiCalls,
                                                 sel.hasKeys, sel.rateLimited)
          IN  sel' = [sel EXCEPT !.pc = strategy, !.strategy = strategy]
    /\ selUnchanged

(* case 'cached': getAllValidImages(); empty or rejected falls through *)
TryCached ==
    /\ sel.pc = "cached"
    /\ \E read \in {"items", "empty", "failed"}, n \in 1..MaxBatch :
          LET tried == Append(sel.tried, "cached") IN
          sel' = IF read = "items"
                 THEN [Return("cached", n) EXCEPT !.tried = tried]
                 ELSE [sel EXCEPT !.pc = "api", !.tried = tried]
    /\ selUnchanged

(* case 'api': fetchAllImages() when allowed; empty or rejected falls through *)
TryApi ==
    /\ sel.pc = "api"
    /\ \E outcome \in {"images", "empty", "throw"}, n \in 1..MaxBatch :
          LET tried == Append(sel.tried, "network") IN
          sel' = IF ~ApiAllowed(sel.allowApiCalls)
                 THEN [sel EXCEPT !.pc = "fallback"]
                 ELSE IF outcome = "images"
                 THEN [Return("api", n) EXCEPT !.tried = tried, !.apiFetches = @ + 1]
                 ELSE [sel EXCEPT !.pc = "fallback", !.tried = tried,
                                  !.apiFetches = @ + 1]
    /\ selUnchanged

(* case 'fallback': getFallbackImages(); empty or rejected falls through *)
TryFallback ==
    /\ sel.pc = "fallback"
    /\ \E downloaded \in 0..MaxBatch, generated \in BOOLEAN :
          LET tried == Append(sel.tried, "fallback")
              got == getFallbackImagesEarlier(sel.onLine, downloaded, generated)
          IN  sel' = IF got = "raised"
                     THEN [sel EXCEPT !.pc = "placeholder", !.tried = tried]
                     ELSE [Return(got, IF got = "images" THEN downloaded ELSE 1)
                             EXCEPT !.tried = tried]
    /\ selUnchanged

(* case 'placeholder': generateOfflinePlaceholder(), and the outer catch *)
TryPlaceholder ==
    /\ sel.pc = "placeholder"
    /\ \E generated \in BOOLEAN, again \in BOOLEAN :
          sel' = [Return(IF generated THEN "placeholder" ELSE LastResort(again), 1)
                    EXCEPT !.tried = Append(sel.tried, "placeholder")]
    /\ selUnchanged

(* getFallbackImages called on its own, in either variant of the module *)
CallGetFallbackImages ==
    /\ sel.pc = "idle"
    /\ \E current \in BOOLEAN, onLine \in BOOLEAN, downloaded \in 0..MaxBatch,
          generated \in BOOLEAN :
          LET got == IF current THEN getFallbackImagesCurrent(onLine, downloaded)
                     ELSE getFallbackImagesEarlier(onLine, downloaded, generated)
          IN  sel' = [Return(IF got = "raised" THEN "none" ELSE got,
                             IF got = "images" THEN downloaded ELSE 1)
                        EXCEPT !.fn = IF current THEN "getFallbackImages"
                                      ELSE "getFallbackImagesEarlier",
                               !.onLine = onLine,
                               !.raised = got = "raised"]
    /\ selUnchanged

InitSource == InitStoreVars /\ InitRefreshVars /\ InitKwVars /\ InitDlVars

NextSource ==
    \/ CallGetImageSourceStrategy
    \/ CallGetImagesWithFallback
    \/ SelectStrategy
    \/ TryCached
    \/ TryApi
    \/ TryFallback
    \/ TryPlaceholder
    \/ CallGetFallbackImages

SpecSource == InitSource /\ [][NextSource]_vars

----------------------------------------------------------------------------
(* The payloads of a provider fetcher. The answer to the download of an
   entry is a failure, or a body with a content type; the current fetchers
   download through downloadSingleImage and downloadFile, the earlier ones
   through downloadImageBlob. A content type is a sequence of its parts. *)

Variants == {"current", "earlier"}

ContentTypes == {<<"image", "/", "jpeg">>, <<"image", "/", "png">>,
                 <<"text", "/", "html">>, <<"application", "/", "json">>,
                 <<"image">>, <<>>}

(* String.prototype.startsWith *)
startsWith(str, prefix) ==
    Len(str) >= Len(prefix) /\ SubSeq(str, 1, Len(prefix)) = prefix

(* blob.type.startsWith("image/") *)
IsImage(type) == startsWith(type, <<"image", "/">>)

(* downloadImageBlob: if (!blob.type.startsWith("image/")) throw; downloadFile
   returns response.blob() as it is, and downloadSingleImage wraps it *)
ContentChecked(variant) == variant = "earlier"

(* what the promise of the entry gives: the item, or null after the catch *)
DownloadOutcome(variant, ok, type) ==
    IF ~ok \/ (ContentChecked(variant) /\ ~IsImage(type)) THEN "null"
    ELSE "downloaded"

(* the download of one entry is answered *)
ItemDownloads ==
    /\ prov.pc = "downloads"
    /\ \E i \in DOMAIN prov.item :
          /\ prov.item[i] = "pending"
          /\ \E ok \in BOOLEAN, type \in ContentTypes :
                /\ ~ok => type = <<>>
                /\ prov' = [prov EXCEPT
                              !.item[i] = DownloadOutcome(prov.variant, ok, type),
                              !.notImages = IF ok /\ ~IsImage(type)
                                            THEN @ \cup {i} ELSE @]
    /\ provUnchanged

(* refreshImages: images.length > 0, await storeImages(images) *)
StoreResult ==
    /\ prov.pc = "returned"
    /\ prov.result # {}
    /\ prov' = [prov EXCEPT !.pc = "stored", !.stored = prov.result]
    /\ provUnchanged

InitPayload ==
    /\ InitStoreVars /\ InitRefreshVars /\ InitKwVars
    /\ dl = NoDownload
    /\ fa = NoFetchAll
    /\ cy = NoCycle
    /\ sel = NoSelection
    /\ tx = NoTransaction
    /\ rd = NoRead
    /\ tab = NoTab
    /\ ctl = NoControl
    /\ \E variant \in Variants : prov = [NoProvider EXCEPT !.variant = variant]

NextPayload ==
    \/ CallProvider
    \/ MetadataFails
    \/ MetadataArrives
    \/ ItemDownloads
    \/ CollectResults
    \/ StoreResult

SpecPayload == InitPayload /\ [][NextPayload]_vars

----------------------------------------------------------------------------
(* One fetch session: fetchAllImages together with the keyword rotation. The
   keyword is drawn once, after the connectivity check and before the
   provider promises are built, and passed to every provider invocation. *)

(* a provider searching with a keyword of its own *)
ProviderKeyword_ownList(selectedKeyword, kind) == <<kind>>

(* fetchUnsplashImages(key, permanentMode, selectedKeyword), and the same for
   fetchPexelsImages *)
ProviderKeyword(selectedKeyword, kind) == selectedKeyword

(* const selectedKeyword = await getNextKeywordSequentially(...); the
   promises are built with it; with none, return [] *)
DrawKeyword ==
    /\ fa.pc = "keyword"
    /\ LET all == allKeywords(unsplashKeywords, pexelsKeywords)
           nextIndex == NextIndex(getLastKeywordIndex, Len(all))
           selectedKeyword == IF Len(all) = 0 THEN <<>> ELSE all[nextIndex + 1]
           u == Invocations(fa.unsplashKeys)
           p == Invocations(fa.pexelsKeys)
       IN  /\ lastKeywordIndex' = IF Len(all) = 0 THEN lastKeywordIndex
                                  ELSE {nextIndex}
           /\ kwLog' = Append(kwLog, selectedKeyword)
           /\ fa' = [fa EXCEPT
                       !.pc = IF u + p = 0 THEN "returned" ELSE "providers",
                       !.pendingU = u, !.pendingP = p,
                       !.keyword = selectedKeyword,
                       !.given = {ProviderKeyword(selectedKeyword, "unsplash") :
                                     i \in 1..u}
                                 \cup {ProviderKeyword(selectedKeyword, "pexels") :
                                          i \in 1..p}]
    /\ UNCHANGED <<unsplashKeywords, pexelsKeywords, kwStart>>
    /\ UNCHANGED <<storeVars, refreshVars, dlVars, prov, cy, sel, tx, rd, tab, ctl>>

(* one provider invocation settles; its promise never rejects *)
ProviderSettles ==
    /\ fa.pc = "providers"
    /\ \E kind \in {"unsplash", "pexels"} :
          /\ (IF kind = "unsplash" THEN fa.pendingU ELSE fa.pendingP) > 0
          /\ fa' = IF kind = "unsplash"
                   THEN [fa EXCEPT !.pendingU = @ - 1]
                   ELSE [fa EXCEPT !.pendingP = @ - 1]
    /\ faUnchanged

(* the settings hold the default strings or any two strings of at most
   MaxSettingLen characters in all; the cursor is unset or was saved by an
   earlier session, possibly over a longer list *)
InitSession ==
    /\ InitStoreVars /\ InitRefreshVars /\ InitDlVars
    /\ \/ /\ unsplashKeywords = DEFAULT_UNSPLASH_KEYWORDS
          /\ pexelsKeywords = DEFAULT_PEXELS_KEYWORDS
       \/ \E n \in 0..MaxSettingLen : \E s \in [1..n -> Chars] : \E cut \in 0..n :
             /\ unsplashKeywords = SubSeq(s, 1, cut)
             /\ pexelsKeywords = SubSeq(s, cut + 1, n)
    /\ lastKeywordIndex \in {{}} \cup {{n} : n \in 0..MaxCursor}
    /\ kwStart = getLastKeywordIndex
    /\ kwLog = <<>>

NextSession ==
    \/ CallFetchAllImages
    \/ DrawKeyword
    \/ ProviderSettles
    \/ ReturnAllImages

SpecSession == InitSession /\ [][NextSession]_vars

----------------------------------------------------------------------------
(* The transactions on imagesStore. A mutation (storeImages,
   cleanExpiredImages, setAllImagesToPermanentCache) opens one readwrite
   transaction and changes its records one request at a time; a read
   (getAllValidImages, getValidImageCount, _getRandomImageWithDB,
   getHistoryImageById) opens one readonly transaction. Neither looks at
   backgroundState.isFetching, and the reads do not go through
   acquireWriteLock. The engine runs transactions on the same store in the
   order they were created when one of them is readwrite, and undoes the
   requests of a transaction that fails. One mutation and one read are
   followed at a time, and the caller of a completed read takes its result
   before the next step of anything else is followed. *)

txnFrame ==
    UNCHANGED <<now, ticks, history, historyKey, lastFetch, dbWriteLock, resolved,
                ops, fetched, lastPick, lastSweep, lastAppend, calls, cycle,
                kwVars, dlVars, prov, fa, cy, sel, tab, ctl>>

Mutations == {"storeImages", "cleanExpiredImages", "setAllImagesToPermanentCache"}
Reads == {"getAllValidImages", "getValidImageCount", "getRandomImage",
          "getHistoryImageById"}

(* the store once every request of the mutation has been applied *)
Mutated(op, imgs, t, batch) ==
    CASE op = "storeImages" -> putAll(imgs, batch)
      [] op = "cleanExpiredImages" -> sweepAll(imgs, t)
      [] op = "setAllImagesToPermanentCache" -> retagAll(imgs, t)
      [] OTHER -> imgs

(* the records the mutation has a request for: every image of the batch,
   every record the cursor meets *)
Requested(op, imgs, t, batch) ==
    CASE op = "storeImages" -> {r.id : r \in batch}
      [] op = "cleanExpiredImages" ->
            {id \in storedIds(imgs) : sweepRange(t, imgs[id].expiresAt)}
      [] op = "setAllImagesToPermanentCache" -> storedIds(imgs)
      [] OTHER -> {}

(* a transaction of its own for every record *)
TransactionEnds_eachRecord(todo) == TRUE

(* one db.transaction per mutation: it ends when no request is left *)
TransactionEnds(todo) == todo = {}

(* what a read can return from the store imgs at time t *)
ReadResults(fn, imgs, t, arg) ==
    CASE fn = "getAllValidImages" -> {{imgs[id] : id \in validIds(imgs, t)}}
      [] fn = "getValidImageCount" -> {Cardinality(validIds(imgs, t))}
      [] fn = "getRandomImage" ->
            IF validIds(imgs, t) = {} THEN {NoImage}
            ELSE {imgs[id] : id \in validIds(imgs, t)}
      [] fn = "getHistoryImageById" -> {getHistoryImageById(imgs, arg)}
      [] OTHER -> {}

(* the records the mutation overlapping the read r changes *)
Changed(r) == {id \in DOMAIN r.before : r.before[id] # r.after[id]}

(* the store imgs as the read r finds it agrees with the store other on
   every record the overlapping mutation changes *)
SameRecords(imgs, other, r) == \A id \in Changed(r) : imgs[id] = other[id]

(* the clock passes the lifetime of an image *)
DayPasses ==
    /\ ticks < MaxTicks
    /\ now' = now + IMAGE_EXPIRY_HOURS
    /\ ticks' = ticks + 1
    /\ UNCHANGED <<images, tx, rd, isFetching, history, historyKey, lastFetch,
                   dbWriteLock, resolved, ops, fetched, lastPick, lastSweep,
                   lastAppend, calls, cycle, kwVars, dlVars, prov, fa, cy, sel,
                   tab, ctl>>

(* refreshImages sets isFetching, and clears it in its finally block *)
CycleBegins ==
    /\ rd.pc # "done"
    /\ ~isFetching
    /\ isFetching' = TRUE
    /\ UNCHANGED <<images, tx, rd>>
    /\ txnFrame

CycleEnds ==
    /\ rd.pc # "done"
    /\ isFetching
    /\ isFetching' = FALSE
    /\ rd' = IF rd.pc = "created" THEN [rd EXCEPT !.inCycle = FALSE] ELSE rd
    /\ UNCHANGED <<images, tx>>
    /\ txnFrame

(* db.transaction([IMAGES_STORE_NAME], "readwrite") and the requests queued
   on it; the transaction waits for a readonly transaction created earlier *)
BeginMutation ==
    /\ rd.pc # "done"
    /\ tx.pc = "none"
    /\ rd.pc = "created" => ~rd.overlap
    /\ \E op \in Mutations, ids \in NonEmptyResults :
          LET batch == IF op = "storeImages" THEN Obtained(ids, FALSE, now)
                       ELSE {}
          IN  /\ op # "storeImages" => ids = CycleIds
              /\ tx' = [pc |-> "live", op |-> op, at |-> now, batch |-> batch,
                        before |-> images, undo |-> images,
                        todo |-> Requested(op, images, now, batch),
                        behind |-> rd.pc = "created", error |-> "none"]
              /\ rd' = IF rd.pc = "created"
                       THEN [rd EXCEPT !.overlap = TRUE, !.before = images,
                                       !.after = Mutated(op, images, now, batch)]
                       ELSE rd
    /\ UNCHANGED <<images, isFetching>>
    /\ txnFrame

(* one request of the transaction takes effect: store.put, cursor.delete,
   cursor.update. The requests are answered in the order they were placed,
   the cursor walks in key order *)
ApplyRequest ==
    /\ rd.pc # "done"
    /\ tx.pc = "live" /\ ~tx.behind
    /\ \E id \in tx.todo :
          LET left == tx.todo \ {id}
              ends == TransactionEnds(left) /\ left # {}
          IN  /\ \A other \in tx.todo : id <= other
              /\ images' = [images EXCEPT
                               ![id] = Mutated(tx.op, tx.before, tx.at, tx.batch)[id]]
              /\ tx' = [tx EXCEPT !.todo = left,
                                  !.undo = IF ends THEN images' ELSE @,
                                  !.behind = ends /\ rd.pc = "created"]
              /\ rd' = IF ends THEN [rd EXCEPT !.behind = FALSE] ELSE rd
    /\ UNCHANGED isFetching
    /\ txnFrame

(* transaction.oncomplete, or the end of the cursor *)
CompleteMutation ==
    /\ rd.pc # "done"
    /\ tx.pc = "live" /\ ~tx.behind
    /\ tx.todo = {}
    /\ tx' = NoTransaction
    /\ rd' = [rd EXCEPT !.behind = FALSE]
    /\ UNCHANGED <<images, isFetching>>
    /\ txnFrame

(* transaction.onerror, cursorRequest.onerror, updateRequest.onerror: the
   engine undoes the requests of the transaction *)
FailMutation ==
    /\ rd.pc # "done"
    /\ tx.pc = "live" /\ ~tx.behind
    /\ images' = tx.undo
    /\ tx' = NoTransaction
    /\ rd' = [rd EXCEPT !.behind = FALSE]
    /\ UNCHANGED isFetching
    /\ txnFrame

(* db.transaction([IMAGES_STORE_NAME], "readonly"): created behind the
   readwrite transaction in progress, if there is one *)
BeginRead ==
    /\ rd.pc = "none"
    /\ \E fn \in Reads, arg \in CycleIds :
          /\ fn # "getHistoryImageById" => arg = 1
          /\ rd' = [NoRead EXCEPT
                       !.pc = "created", !.fn = fn, !.arg = arg,
                       !.behind = tx.pc = "live",
                       !.overlap = tx.pc = "live",
                       !.before = IF tx.pc = "live" THEN tx.before ELSE <<>>,
                       !.after = IF tx.pc = "live"
                                 THEN Mutated(tx.op, tx.before, tx.at, tx.batch)
                                 ELSE <<>>,
                       !.inCycle = isFetching]
    /\ UNCHANGED <<images, tx, isFetching>>
    /\ txnFrame

(* the requests of the readonly transaction are answered from the store *)
CompleteRead ==
    /\ rd.pc = "created" /\ ~rd.behind
    /\ \E r \in ReadResults(rd.fn, images, now, rd.arg) :
          rd' = [rd EXCEPT
                   !.pc = "done",
                   !.before = <<>>, !.after = <<>>,
                   !.many = Cardinality(Changed(rd)) >= 2,
                   !.sawNone = rd.overlap /\ SameRecords(images, rd.before, rd),
                   !.sawAll = rd.overlap /\ SameRecords(images, rd.after, rd),
                   !.gotNone = rd.overlap
                               /\ r \in ReadResults(rd.fn, rd.before, now, rd.arg),
                   !.gotAll = rd.overlap
                              /\ r \in ReadResults(rd.fn, rd.after, now, rd.arg),
                   !.inCycle = @ /\ isFetching]
    /\ tx' = [tx EXCEPT !.behind = FALSE]
    /\ UNCHANGED <<images, isFetching>>
    /\ txnFrame

(* the promise of the read is settled and its caller goes on *)
ReturnRead ==
    /\ rd.pc \in {"done", "rejected"}
    /\ rd' = NoRead
    /\ UNCHANGED <<images, tx, isFetching>>
    /\ txnFrame

InitTxn ==
    /\ now = 0
    /\ ticks = 0
    /\ images = [id \in CycleIds |-> NoImage]
    /\ lastFetch = {}
    /\ history = {}
    /\ historyKey = 0
    /\ dbWriteLock = 0
    /\ resolved = {0}
    /\ ops = <<>>
    /\ fetched = NoFetch
    /\ lastPick = NoPick
    /\ lastSweep = NoSweep
    /\ lastAppend = NoAppend
    /\ InitRefreshVars
    /\ InitKwVars
    /\ InitDlVars

NextTxn ==
    \/ DayPasses
    \/ CycleBegins
    \/ CycleEnds
    \/ BeginMutation
    \/ ApplyRequest
    \/ CompleteMutation
    \/ FailMutation
    \/ BeginRead
    \/ CompleteRead
    \/ ReturnRead

SpecTxn == InitTxn /\ [][NextTxn]_vars

(* the engine runs the transactions it holds: a request is answered and a
   transaction completes without any step of the refresh cycle *)
SpecTxnLive ==
    /\ SpecTxn
    /\ WF_vars(ApplyRequest \/ CompleteMutation)
    /\ WF_vars(CompleteRead \/ ReturnRead)

----------------------------------------------------------------------------
(* The same operations when the engine reports an error on one of their
   requests. The error event goes to the request's onerror handler, then to
   the transaction's, and the transaction is aborted, which fails the
   requests still waiting on it. A promise is settled only by a handler that
   calls reject (or resolve). *)

(* the requests a read places: the cursor of the random selection is opened
   only when the count is not 0 *)
ReadRequests(fn, imgs, t) ==
    CASE fn = "getAllValidImages" -> {"cursor"}
      [] fn = "getValidImageCount" -> {"count"}
      [] fn = "getRandomImage" ->
            IF validIds(imgs, t) = {} THEN {"count"} ELSE {"count", "cursor"}
      [] fn = "getHistoryImageById" -> {"get"}
      [] OTHER -> {}

(* the requests a mutation places *)
MutationRequests(op, todo) ==
    CASE op = "storeImages" -> {"put"}
      [] op = "cleanExpiredImages" ->
            IF todo = {} THEN {"cursor"} ELSE {"cursor", "delete"}
      [] op = "setAllImagesToPermanentCache" ->
            IF todo = {} THEN {"cursor"} ELSE {"cursor", "update"}
      [] OTHER -> {}

(* whether a handler that rejects the promise of the operation receives the
   error of the request:
     getAllValidImages    cursorRequest.onerror
     getValidImageCount   countRequest.onerror
     getRandomImage       cursorRequest.onerror; countRequest has onsuccess
                          only, and the transaction has no handler
     getHistoryImageById  request.onerror
     storeImages          transaction.onerror, for the error of a put
     cleanExpiredImages   cursorRequest.onerror, also for the cursor.continue
                          request that the abort after a failed delete fails
     setAllImagesToPermanentCache  cursorRequest.onerror, updateRequest.onerror *)
Rejects(op, request) == ~(op = "getRandomImage" /\ request = "count")

Settled(op, request) == IF Rejects(op, request) THEN "rejected" ELSE "pending"

ReadRequestFails ==
    /\ rd.pc = "created" /\ ~rd.behind
    /\ \E request \in ReadRequests(rd.fn, images, now) :
          rd' = [rd EXCEPT !.pc = Settled(rd.fn, request), !.error = request,
                          !.before = <<>>, !.after = <<>>]
    /\ tx' = [tx EXCEPT !.behind = FALSE]
    /\ UNCHANGED <<images, isFetching>>
    /\ txnFrame

MutationRequestFails ==
    /\ rd.pc # "done"
    /\ tx.pc = "live" /\ ~tx.behind
    /\ \E request \in MutationRequests(tx.op, tx.todo) :
          tx' = [NoTransaction EXCEPT !.pc = Settled(tx.op, request),
                                     !.op = tx.op, !.error = request]
    /\ images' = tx.undo
    /\ rd' = [rd EXCEPT !.behind = FALSE]
    /\ UNCHANGED isFetching
    /\ txnFrame

(* the caller of the mutation receives the rejection *)
ReturnMutation ==
    /\ tx.pc = "rejected"
    /\ tx' = NoTransaction
    /\ UNCHANGED <<images, rd, isFetching>>
    /\ txnFrame

NextErr ==
    \/ DayPasses
    \/ BeginMutation
    \/ ApplyRequest
    \/ CompleteMutation
    \/ MutationRequestFails
    \/ ReturnMutation
    \/ BeginRead
    \/ CompleteRead
    \/ ReadRequestFails
    \/ ReturnRead

SpecErr == InitTxn /\ [][NextErr]_vars

----------------------------------------------------------------------------
(* getRandomImage: a draw with _getRandomImageWithDB, then up to
   attempts + 1 rounds of wasImageViewedRecently(image.id, 0.3) and a redraw.
   No operation changes the store during the call; the clock moves, and the
   engine answers every request. *)

pickFrame ==
    UNCHANGED <<now, ticks, images, history, historyKey, lastFetch, dbWriteLock,
                resolved, ops, fetched, lastPick, lastSweep, lastAppend,
                refreshVars, kwVars, dlVars, prov, fa, cy, sel, tx, tab, ctl>>

(* wasImageViewedRecently(imageId, 0.3): an entry of the image whose viewedAt
   is in IDBKeyRange.lowerBound(Date.now() - 0.3 hours), counted in tenths *)
wasImageViewedRecently(H, imageId, t) ==
    \E entry \in H : entry.imageId = imageId /\ 10 * entry.viewedAt >= 10 * t - 3

(* null once the redraws are used up *)
AfterLoop_null(image) == NoImage

(* return image, after the while loop *)
AfterLoop(image) == image

CallGetRandomImage ==
    /\ rd.pc = "idle"
    /\ rd' = [rd EXCEPT !.pc = "draw"]
    /\ pickFrame

(* await _getRandomImageWithDB(db); after a redraw attempts -= 1; then the
   head of the loop: while (attempts >= 0) { if (!image) return null; ... } *)
DrawImage ==
    /\ rd.pc = "draw"
    /\ LET valid == validIds(images, now)
           attempts == IF rd.draws = 0 THEN rd.attempts ELSE rd.attempts - 1
       IN  \E image \in IF valid = {} THEN {NoImage} ELSE {images[id] : id \in valid} :
              LET drawn == [rd EXCEPT !.image = image, !.attempts = attempts,
                                      !.draws = @ + 1,
                                      !.validAtDraw = valid # {},
                                      !.viewedAll =
                                         \A id \in valid :
                                            wasImageViewedRecently(history, id, now)]
              IN  rd' = IF attempts < 0
                        THEN [drawn EXCEPT !.pc = "returned",
                                           !.result = AfterLoop(image)]
                        ELSE IF image = NoImage
                        THEN [drawn EXCEPT !.pc = "returned", !.result = NoImage]
                        ELSE [drawn EXCEPT !.pc = "viewed"]
    /\ pickFrame

(* if (!(await wasImageViewedRecently(image.id, 0.3))) return image *)
ViewedAnswers ==
    /\ rd.pc = "viewed"
    /\ rd' = IF wasImageViewedRecently(history, rd.image.id, now)
             THEN [rd EXCEPT !.pc = "draw"]
             ELSE [rd EXCEPT !.pc = "returned", !.result = rd.image]
    /\ pickFrame

(* a day after the first fetch: each image is absent, fetched at 0 or fetched
   now; each was last viewed never, at 0 or now *)
InitPick ==
    /\ now = IMAGE_EXPIRY_HOURS
    /\ ticks = 0
    /\ \E fetchedAt \in [CycleIds -> {-1, 0, IMAGE_EXPIRY_HOURS}],
          viewedAt \in [CycleIds -> {-1, 0, IMAGE_EXPIRY_HOURS}] :
          /\ images = [id \in CycleIds |->
                         IF fetchedAt[id] = -1 THEN NoImage
                         ELSE [id |-> id, timestamp |-> fetchedAt[id],
                               expiresAt |-> computeExpiry(FALSE, fetchedAt[id])]]
          /\ history = {[id |-> id, viewedAt |-> viewedAt[id], imageId |-> id] :
                           id \in {i \in CycleIds : viewedAt[i] # -1}}
    /\ historyKey = MaxItems
    /\ lastFetch = {}
    /\ dbWriteLock = 0
    /\ resolved = {0}
    /\ ops = <<>>
    /\ fetched = NoFetch
    /\ lastPick = NoPick
    /\ lastSweep = NoSweep
    /\ lastAppend = NoAppend
    /\ InitRefreshVars
    /\ InitKwVars
    /\ dl = NoDownload
    /\ prov = NoProvider
    /\ fa = NoFetchAll
    /\ cy = NoCycle
    /\ sel = NoSelection
    /\ tx = NoTransaction
    /\ rd = NoRandomImage
    /\ tab = NoTab
    /\ ctl = NoControl

NextPick ==
    \/ Tick
    \/ CallGetRandomImage
    \/ DrawImage
    \/ ViewedAnswers

SpecPick == InitPick /\ [][NextPick]_vars

----------------------------------------------------------------------------
(* setAllImagesToPermanentCache, request by request: the expiry is computed
   once, the cursor opened with store.openCursor() meets every record, and
   the clock moves while it walks. *)

retagFrame ==
    UNCHANGED <<history, historyKey, lastFetch, dbWriteLock, resolved, ops,
                fetched, lastPick, lastSweep, lastAppend, refreshVars, kwVars,
                dlVars, prov, fa, cy, sel, rd, tab, ctl>>

(* the expiry computed again for every record the cursor meets *)
RetagTime_eachRecord(at, t) == t

(* const permanentExpiryDate = Date.now() + ..., before the cursor is opened *)
RetagTime(at, t) == at

CallRetag ==
    /\ tx.pc = "idle"
    /\ tx' = [NoRetag EXCEPT
                !.pc = "cursor", !.at = now, !.before = images,
                !.todo = storedIds(images),
                !.expiredBefore = storedIds(images) # validIds(images, now)]
    /\ UNCHANGED <<now, ticks, images>>
    /\ retagFrame

(* cursor.update(image) with image.expiresAt = permanentExpiryDate, then
   updatedCount++ and cursor.continue() *)
CursorUpdate ==
    /\ tx.pc = "cursor"
    /\ \E id \in tx.todo :
          /\ \A other \in tx.todo : id <= other
          /\ images' = [images EXCEPT
                           ![id].expiresAt = permanentExpiryDate(RetagTime(tx.at, now))]
          /\ tx' = [tx EXCEPT !.todo = @ \ {id}, !.updatedCount = @ + 1]
    /\ UNCHANGED <<now, ticks>>
    /\ retagFrame

(* the cursor is past the last record: resolve(updatedCount) *)
CursorEnds ==
    /\ tx.pc = "cursor"
    /\ tx.todo = {}
    /\ tx' = [tx EXCEPT !.pc = "returned", !.result = tx.updatedCount]
    /\ UNCHANGED <<now, ticks, images>>
    /\ retagFrame

(* updateRequest.onerror, cursorRequest.onerror: reject; the failed request
   aborts the transaction, which undoes its updates *)
RetagFails ==
    /\ tx.pc = "cursor"
    /\ images' = tx.before
    /\ tx' = [tx EXCEPT !.pc = "rejected"]
    /\ UNCHANGED <<now, ticks>>
    /\ retagFrame

(* two days after the first fetch: each image is absent, or was fetched with
   the 24 hour expiry two days ago, a day ago or now *)
InitRetag ==
    /\ now = 2 * IMAGE_EXPIRY_HOURS
    /\ ticks = 0
    /\ \E fetchedAt \in [CycleIds -> {-1, 0, IMAGE_EXPIRY_HOURS, 2 * IMAGE_EXPIRY_HOURS}] :
          images = [id \in CycleIds |->
                      IF fetchedAt[id] = -1 THEN NoImage
                      ELSE [id |-> id, timestamp |-> fetchedAt[id],
                            expiresAt |-> computeExpiry(FALSE, fetchedAt[id])]]
    /\ history = {}
    /\ historyKey = 0
    /\ lastFetch = {}
    /\ dbWriteLock = 0
    /\ resolved = {0}
    /\ ops = <<>>
    /\ fetched = NoFetch
    /\ lastPick = NoPick
    /\ lastSweep = NoSweep
    /\ lastAppend = NoAppend
    /\ InitRefreshVars
    /\ InitKwVars
    /\ dl = NoDownload
    /\ prov = NoProvider
    /\ fa = NoFetchAll
    /\ cy = NoCycle
    /\ sel = NoSelection
    /\ tx = NoRetag
    /\ rd = NoRead
    /\ tab = NoTab
    /\ ctl = NoControl

NextRetag ==
    \/ Tick
    \/ CallRetag
    \/ CursorUpdate
    \/ CursorEnds
    \/ RetagFails

SpecRetag == InitRetag /\ [][NextRetag]_vars

----------------------------------------------------------------------------
(* The 'apiKeysUpdated' message of the background worker.  backgroundState
   is the worker's own object, lastManualFetch: 0 at its start; the clock is
   Date.now() in milliseconds, counted from a start later than one cooldown
   after the epoch. *)

controlFrame ==
    UNCHANGED <<storeVars, refreshVars, kwVars, dlVars, prov, fa, cy, sel, tx,
                rd, tab>>

CooldownSteps == {1, IMMEDIATE_FETCH_COOLDOWN_MS - 1, IMMEDIATE_FETCH_COOLDOWN_MS}

(* the trigger at the end of the cooldown still refused *)
CooldownActive_atEnd(timeSinceLastManualFetch) ==
    timeSinceLastManualFetch <= IMMEDIATE_FETCH_COOLDOWN_MS

(* if (timeSinceLastManualFetch < IMMEDIATE_FETCH_COOLDOWN_MS) *)
CooldownActive(timeSinceLastManualFetch) ==
    timeSinceLastManualFetch < IMMEDIATE_FETCH_COOLDOWN_MS

TimePasses ==
    /\ ctl.waits < MaxWaits
    /\ \E d \in CooldownSteps :
          ctl' = [ctl EXCEPT !.now = @ + d, !.waits = @ + 1]
    /\ controlFrame

(* onMessage, message.action === "apiKeysUpdated": the handler up to its
   return; refreshImages() is called and answers later *)
ApiKeysUpdated ==
    /\ Len(ctl.log) < MaxTriggers
    /\ LET timeSinceLastManualFetch == ctl.now - ctl.lastManualFetch IN
       ctl' = IF CooldownActive(timeSinceLastManualFetch)
              THEN [ctl EXCEPT
                      !.log = Append(@, [at |-> ctl.now, refresh |-> FALSE,
                                         response |-> "cooldown"])]
              ELSE [ctl EXCEPT
                      !.lastManualFetch = ctl.now,
                      !.apiKeyUpdateCount = @ + 1,
                      !.refreshes = @ + 1,
                      !.log = Append(@, [at |-> ctl.now, refresh |-> TRUE,
                                         response |-> "pending"])]
    /\ controlFrame

(* refreshImages().then(...).catch(...): sendResponse with success true or
   false *)
TriggeredRefreshSettles ==
    /\ \E i \in 1..Len(ctl.log), r \in {"success", "failure"} :
          /\ ctl.log[i].response = "pending"
          /\ \A j \in 1..(i - 1) : ctl.log[j].response # "pending"
          /\ ctl' = [ctl EXCEPT !.log[i].response = r]
    /\ controlFrame

InitCooldown ==
    /\ InitStoreVars /\ InitRefreshVars /\ InitKwVars
    /\ dl = NoDownload
    /\ prov = NoProvider
    /\ fa = NoFetchAll
    /\ cy = NoCycle
    /\ sel = NoSelection
    /\ tx = NoTransaction
    /\ rd = NoRead
    /\ tab = NoTab
    /\ ctl = NoBackground

NextCooldown ==
    \/ TimePasses
    \/ ApiKeysUpdated
    \/ TriggeredRefreshSettles

SpecCooldown == InitCooldown /\ [][NextCooldown]_vars

----------------------------------------------------------------------------
(* storeImages under acquireWriteLock, with the ways its transaction can end.
   The promise of the operation is settled by transaction.oncomplete and
   transaction.onerror only; a transaction whose commit fails (quota, disk)
   after its requests have succeeded gets the abort event and no error
   event. *)

releaseFrame ==
    UNCHANGED <<now, ticks, history, historyKey, lastFetch, fetched, lastPick,
                lastSweep, lastAppend, refreshVars, kwVars, dlVars, prov, fa, cy,
                sel, rd, tab, ctl>>

Batches == {{}, {[id |-> 1, timestamp |-> 0, expiresAt |-> IMAGE_EXPIRY_HOURS]}}

IssueStoreImages ==
    /\ \E batch \in Batches :
          Acquire(MaxLockOps, "storeImages", [NoArg EXCEPT !.images = batch])
    /\ UNCHANGED <<images, resolved, tx>>
    /\ releaseFrame

(* if (images.length === 0) return; or transaction.oncomplete: resolve() *)
StoreCompletes(i) ==
    /\ InBody(i, "storeImages")
    /\ images' = putAll(images, ops[i].arg.images)
    /\ tx' = [tx EXCEPT !.settled = Append(@, [op |-> i, error |-> FALSE])]
    /\ Release(i)
    /\ UNCHANGED dbWriteLock
    /\ releaseFrame

(* initDB rejects, or a request fails: transaction.onerror, reject *)
StoreRejects(i) ==
    /\ InBody(i, "storeImages")
    /\ tx' = [tx EXCEPT !.settled = Append(@, [op |-> i, error |-> TRUE])]
    /\ Release(i)
    /\ UNCHANGED <<images, dbWriteLock>>
    /\ releaseFrame

(* the commit fails: the abort event fires, for which storeImages has no
   handler; its promise stays pending and the finally block is not reached *)
StoreAborts(i) ==
    /\ InBody(i, "storeImages")
    /\ ops[i].arg.images # {}
    /\ ops' = [ops EXCEPT ![i].st = "aborted"]
    /\ UNCHANGED <<images, dbWriteLock, resolved, tx>>
    /\ releaseFrame

InitRelease ==
    /\ InitStoreVars /\ InitRefreshVars /\ InitKwVars
    /\ dl = NoDownload
    /\ prov = NoProvider
    /\ fa = NoFetchAll
    /\ cy = NoCycle
    /\ sel = NoSelection
    /\ tx = NoOutcomes
    /\ rd = NoRead
    /\ tab = NoTab
    /\ ctl = NoControl

NextRelease ==
    \/ IssueStoreImages
    \/ \E i \in 1..MaxLockOps : EnterBody(i)
    \/ \E i \in 1..MaxLockOps : StoreCompletes(i)
    \/ \E i \in 1..MaxLockOps : StoreRejects(i)
    \/ \E i \in 1..MaxLockOps : StoreAborts(i)

SpecRelease == InitRelease /\ [][NextRelease]_vars

(* a microtask that can run does run; the engine ends every transaction *)
SpecReleaseLive ==
    /\ SpecRelease
    /\ WF_vars(\E i \in 1..MaxLockOps : EnterBody(i))
    /\ WF_vars(\E i \in 1..MaxLockOps :
                  StoreCompletes(i) \/ StoreRejects(i) \/ StoreAborts(i))

----------------------------------------------------------------------------
(* getDatabaseStats: const now = Date.now(), then the counts in transactions
   of their own, each created after an await initDB().  A mutation is one
   readwrite transaction; it is scheduled before or after each of the
   readonly ones. *)

statsFrame ==
    UNCHANGED <<now, ticks, history, historyKey, lastFetch, dbWriteLock, resolved,
                ops, fetched, lastPick, lastSweep, lastAppend, refreshVars,
                kwVars, dlVars, prov, fa, cy, sel, tx, tab, ctl>>

(* what the two counts are over the store imgs, for the call that took t *)
Counts(imgs, t) ==
    <<Cardinality(storedIds(imgs)), Cardinality(validIds(imgs, t))>>

CallGetDatabaseStats ==
    /\ rd.pc \in {"idle", "returned"}
    /\ rd' = [NoStats EXCEPT !.pc = "counting", !.now = now,
                             !.existed = {Counts(images, now)}]
    /\ UNCHANGED images
    /\ statsFrame

(* store.count() *)
CountTotalImages ==
    /\ rd.pc = "counting"
    /\ rd.totalImages = -1
    /\ rd' = [rd EXCEPT !.totalImages = Cardinality(storedIds(images))]
    /\ UNCHANGED images
    /\ statsFrame

(* index.count(IDBKeyRange.lowerBound(now)) *)
CountValidImages ==
    /\ rd.pc = "counting"
    /\ rd.validImages = -1
    /\ rd' = [rd EXCEPT !.validImages = Cardinality(validIds(images, rd.now))]
    /\ UNCHANGED images
    /\ statsFrame

(* Promise.all has every count: expiredImages: totalImages - validImages *)
ReturnStats ==
    /\ rd.pc = "counting"
    /\ rd.totalImages # -1 /\ rd.validImages # -1
    /\ rd' = [rd EXCEPT !.pc = "returned",
                        !.expiredImages = rd.totalImages - rd.validImages]
    /\ UNCHANGED images
    /\ statsFrame

(* storeImages, cleanExpiredImages or setAllImagesToPermanentCache commits *)
MutationCommits ==
    /\ \E op \in Mutations, ids \in NonEmptyResults :
          LET batch == IF op = "storeImages" THEN Obtained(ids, FALSE, now) ELSE {}
          IN  /\ op # "storeImages" => ids = CycleIds
              /\ images' = Mutated(op, images, now, batch)
    /\ images' # images
    /\ rd' = IF rd.pc = "counting"
             THEN [rd EXCEPT !.existed = @ \cup {Counts(images', rd.now)}]
             ELSE rd
    /\ statsFrame

StatsDayPasses ==
    /\ rd.pc # "counting"
    /\ DayPasses

InitStats ==
    /\ InitStoreVars /\ InitRefreshVars /\ InitKwVars
    /\ dl = NoDownload
    /\ prov = NoProvider
    /\ fa = NoFetchAll
    /\ cy = NoCycle
    /\ sel = NoSelection
    /\ tx = NoTransaction
    /\ rd = NoStats
    /\ tab = NoTab
    /\ ctl = NoControl

NextStats ==
    \/ StatsDayPasses
    \/ CallGetDatabaseStats
    \/ CountTotalImages
    \/ CountValidImages
    \/ ReturnStats
    \/ MutationCommits

SpecStats == InitStats /\ [][NextStats]_vars

----------------------------------------------------------------------------
(* CanvasTransitionManager: transition, stopTransition and finishTransition.
   Call k shows image k; animationFrameId is the call whose animate callback
   is requested, 0 for null.  A call is "loading" or "animating"; its
   promise is settled when it is "superseded", "failed", "stopped" or
   "finished"; it is "cancelled" when its requested frame was cancelled. *)

SettledCalls == {"superseded", "failed", "stopped", "finished"}

canvasFrame ==
    UNCHANGED <<storeVars, refreshVars, kwVars, dlVars, prov, fa, cy, sel, tx,
                rd, ctl>>

(* stopTransition: cancelAnimationFrame(animationFrameId), which drops the
   callback that would have resolved the promise of the running call *)
stopTransition(c) ==
    [c EXCEPT !.animationFrameId = 0,
              !.isTransitioning = FALSE,
              !.call = [k \in 1..MaxTransitions |->
                          IF k = c.animationFrameId THEN "cancelled" ELSE c.call[k]]]

(* transition up to await this.loadImage(imageBlob) *)
CallTransition ==
    /\ tab.activeTransitionId < MaxTransitions
    /\ LET transitionId == tab.activeTransitionId + 1
           stopped == IF tab.isTransitioning THEN stopTransition(tab) ELSE tab
       IN  tab' = [stopped EXCEPT !.activeTransitionId = transitionId,
                                  !.call[transitionId] = "loading"]
    /\ canvasFrame

(* img.onload: the superseded call returns, the active one sets nextImage
   and isTransitioning and requests its first frame *)
ImageLoads(k) ==
    /\ tab.call[k] = "loading"
    /\ tab' = IF k # tab.activeTransitionId
              THEN [tab EXCEPT !.call[k] = "superseded"]
              ELSE [tab EXCEPT !.nextImage = k, !.isTransitioning = TRUE,
                               !.animationFrameId = k, !.partial = FALSE,
                               !.call[k] = "animating"]
    /\ canvasFrame

(* img.onerror: catch (e) { console.error(e); return; } *)
ImageFails(k) ==
    /\ tab.call[k] = "loading"
    /\ tab' = [tab EXCEPT !.call[k] = "failed"]
    /\ canvasFrame

(* animate with p < 1: a frame is rendered and the next one requested *)
FrameRenders(k) ==
    /\ tab.animationFrameId = k
    /\ tab.isTransitioning
    /\ ~tab.partial
    /\ tab' = [tab EXCEPT !.partial = TRUE]
    /\ canvasFrame

(* animate: resolve() when isTransitioning is off, else the last frame:
   finishTransition() and resolve() *)
FrameFinishes(k) ==
    /\ tab.animationFrameId = k
    /\ tab' = IF ~tab.isTransitioning
              THEN [tab EXCEPT !.call[k] = "stopped"]
              ELSE [tab EXCEPT !.isTransitioning = FALSE,
                               !.currentImage = tab.nextImage,
                               !.nextImage = 0,
                               !.animationFrameId = 0,
                               !.partial = FALSE,
                               !.call[k] = "finished"]
    /\ canvasFrame

InitTransition ==
    /\ InitStoreVars /\ InitRefreshVars /\ InitKwVars
    /\ dl = NoDownload
    /\ prov = NoProvider
    /\ fa = NoFetchAll
    /\ cy = NoCycle
    /\ sel = NoSelection
    /\ tx = NoTransaction
    /\ rd = NoRead
    /\ tab = NoCanvas
    /\ ctl = NoControl

NextTransition ==
    \/ CallTransition
    \/ \E k \in 1..MaxTransitions : ImageLoads(k)
    \/ \E k \in 1..MaxTransitions : ImageFails(k)
    \/ \E k \in 1..MaxTransitions : FrameRenders(k)
    \/ \E k \in 1..MaxTransitions : FrameFinishes(k)

SpecTransition == InitTransition /\ [][NextTransition]_vars

(* every image load ends, and a requested frame that is not cancelled runs
   until the duration is over *)
SpecTransitionLive ==
    /\ SpecTransition
    /\ WF_vars(\E k \in 1..MaxTransitions : ImageLoads(k) \/ ImageFails(k))
    /\ WF_vars(\E k \in 1..MaxTransitions : FrameFinishes(k))

----------------------------------------------------------------------------
(* The options page: the settings object in chrome.storage.local, the
   currentSettings the force-refresh setup read when the page loaded, and the
   handlers that save.  getSettings returns the DEFAULT_SETTINGS object
   itself while nothing is stored, so holders of it see each other's
   changes; saveSettings stores a copy of the whole object. *)

optionsFrame ==
    UNCHANGED <<storeVars, refreshVars, kwVars, dlVars, prov, fa, cy, sel, tx,
                rd, tab>>

ApiKeys == 1..MaxApiKeys

(* getSettings: the stored object, or DEFAULT_SETTINGS *)
getSettings(c) == IF c.stored = NoSettings THEN c.defaults ELSE c.stored

(* currentSettings of the force-refresh setup: read once at page load *)
SettingsToSave(c) == IF c.shared THEN c.defaults ELSE c.currentSettings

OptionsTimePasses ==
    /\ ctl.now < MaxWaits * FORCE_REFRESH_COOLDOWN_MS
    /\ ctl' = [ctl EXCEPT !.now = @ + FORCE_REFRESH_COOLDOWN_MS]
    /\ optionsFrame

(* addApiKeyBtn: getSettings, apiKeys[source].push(key), saveSettings *)
AddApiKey ==
    /\ \E key \in ApiKeys :
          LET currentSettings == getSettings(ctl)
              pushed == [currentSettings EXCEPT !.apiKeys = @ \cup {key}]
          IN  /\ key \notin currentSettings.apiKeys
              /\ ctl' = [ctl EXCEPT
                           !.defaults = IF ctl.stored = NoSettings THEN pushed ELSE @,
                           !.stored = pushed]
    /\ optionsFrame

(* the click: sendMessage({action: "forceRefreshCache"}) *)
ForceRefreshClick ==
    /\ ctl.pc = "idle"
    /\ ctl.enabledAt <= ctl.now
    /\ ctl' = [ctl EXCEPT !.pc = "sent"]
    /\ optionsFrame

(* response.success: currentSettings.forceRefreshCooldown = Date.now() + 60000
   and saveSettings(currentSettings) *)
ForceRefreshSucceeds ==
    /\ ctl.pc = "sent"
    /\ LET cooldownEnd == ctl.now + FORCE_REFRESH_COOLDOWN_MS
           saved == [SettingsToSave(ctl) EXCEPT !.forceRefreshCooldown = cooldownEnd]
       IN  ctl' = [ctl EXCEPT
                     !.pc = "idle",
                     !.enabledAt = cooldownEnd,
                     !.defaults = IF ctl.shared THEN saved ELSE @,
                     !.currentSettings = IF ctl.shared THEN @ ELSE saved,
                     !.stored = saved]
    /\ optionsFrame

(* lastError or a response without success: nothing is saved *)
ForceRefreshFails ==
    /\ ctl.pc = "sent"
    /\ ctl' = [ctl EXCEPT !.pc = "idle"]
    /\ optionsFrame

(* the page is loaded over an empty storage or over saved settings *)
InitOptions ==
    /\ InitStoreVars /\ InitRefreshVars /\ InitKwVars
    /\ dl = NoDownload
    /\ prov = NoProvider
    /\ fa = NoFetchAll
    /\ cy = NoCycle
    /\ sel = NoSelection
    /\ tx = NoTransaction
    /\ rd = NoRead
    /\ tab = NoTab
    /\ \E stored \in {NoSettings}
                       \cup {[DEFAULT_SETTINGS EXCEPT !.apiKeys = keys] :
                               keys \in SUBSET ApiKeys} :
          ctl = [now |-> 0, pc |-> "idle", enabledAt |-> 0,
                 stored |-> stored, defaults |-> DEFAULT_SETTINGS,
                 shared |-> stored = NoSettings,
                 currentSettings |-> IF stored = NoSettings THEN DEFAULT_SETTINGS
                                     ELSE stored]

NextOptions ==
    \/ OptionsTimePasses
    \/ AddApiKey
    \/ ForceRefreshClick
    \/ ForceRefreshSucceeds
    \/ ForceRefreshFails

SpecOptions == InitOptions /\ [][NextOptions]_vars

----------------------------------------------------------------------------
(* The new tab page outside the history view: deleteCurrentImage, then
   loadRandomImage with getRandomImageEfficient over appState.currentImages,
   the in-memory copy of the valid images.  stored is the image store,
   recent the images with a history entry of the last 20 minutes. *)

pageFrame ==
    UNCHANGED <<storeVars, refreshVars, kwVars, dlVars, prov, fa, cy, sel, tx,
                rd, ctl>>

(* deleteCurrentImage: await deleteImage(imageIdToDelete), then
   loadRandomImage, which enters getRandomImageEfficient *)
DeleteCurrentImage ==
    /\ tab.pc = "shown"
    /\ tab.current # 0
    /\ tab' = [tab EXCEPT !.pc = "cache", !.deleted = tab.current,
                          !.stored = @ \ {tab.current}, !.attempt = 0,
                          !.appended = 0]
    /\ pageFrame

(* if (currentImages.length === 0) currentImages = await getAllValidImages();
   if it is still empty, return null: showError *)
EnsureCache ==
    /\ tab.pc = "cache"
    /\ LET currentImages == IF tab.currentImages = {} THEN tab.stored
                            ELSE tab.currentImages
       IN  tab' = [tab EXCEPT !.currentImages = currentImages,
                              !.pc = IF currentImages = {} THEN "shown" ELSE "pick"]
    /\ pageFrame

(* one round of the loop: a random candidate, returned unless
   wasImageViewedRecently(candidate.id, 0.33); after maxAttempts rounds a
   random image of the cache anyway *)
PickCandidate ==
    /\ tab.pc = "pick"
    /\ \E candidate \in tab.currentImages :
          tab' = IF tab.attempt < EfficientMaxAttempts /\ candidate \in tab.recent
                 THEN [tab EXCEPT !.attempt = @ + 1]
                 ELSE [tab EXCEPT !.pc = "display", !.picked = candidate]
    /\ pageFrame

(* displayImage(randomImageData, false, ...): currentImageData = imageData,
   the transition, addToHistory when the history is enabled; then the cache
   is read again in the background *)
DisplayPicked ==
    /\ tab.pc = "display"
    /\ tab' = [tab EXCEPT !.pc = "shown", !.current = tab.picked,
                          !.appended = IF tab.historyEnabled THEN tab.picked ELSE 0,
                          !.recent = IF tab.historyEnabled THEN @ \cup {tab.picked}
                                     ELSE @,
                          !.refreshing = TRUE]
    /\ pageFrame

(* getAllValidImages().then((freshImages) => currentImages = freshImages) *)
CacheRefreshed ==
    /\ tab.refreshing
    /\ tab' = [tab EXCEPT !.currentImages = tab.stored, !.refreshing = FALSE]
    /\ pageFrame

(* the page after its first image: the cache holds the valid images *)
InitPage ==
    /\ InitStoreVars /\ InitRefreshVars /\ InitKwVars
    /\ dl = NoDownload
    /\ prov = NoProvider
    /\ fa = NoFetchAll
    /\ cy = NoCycle
    /\ sel = NoSelection
    /\ tx = NoTransaction
    /\ rd = NoRead
    /\ ctl = NoControl
    /\ \E stored \in SUBSET CycleIds, historyEnabled \in BOOLEAN :
       \E current \in stored, viewed \in SUBSET stored :
          tab = [pc |-> "shown", stored |-> stored, currentImages |-> stored,
                 current |-> current, picked |-> current,
                 historyEnabled |-> historyEnabled,
                 recent |-> IF historyEnabled THEN viewed \cup {current} ELSE {},
                 deleted |-> 0, attempt |-> 0, appended |-> 0,
                 refreshing |-> FALSE]

NextPage ==
    \/ DeleteCurrentImage
    \/ EnsureCache
    \/ PickCandidate
    \/ DisplayPicked
    \/ CacheRefreshed

SpecPage == InitPage /\ [][NextPage]_vars

----------------------------------------------------------------------------
(* History navigation of the new tab page: navigateToPrevious and
   navigateToNext over appState.historyList (newest first, positions counted
   from 0) and appState.currentHistoryIndex (-1: the current image). An entry
   is the id of the image it refers to; the store holds some of them. *)

tabFrame ==
    UNCHANGED <<storeVars, refreshVars, kwVars, dlVars, prov, fa, cy, sel, tx, rd,
                ctl>>

EntryIds == 1..MaxEntries

(* the recursion never stopped by its depth *)
DepthReached_never(depth) == FALSE

(* if (depth >= MAX_RECURSION_DEPTH) return *)
DepthReached(depth) == depth >= MAX_RECURSION_DEPTH

(* historyList.splice(index, 1), index counted from 0 *)
splice(list, index) ==
    SubSeq(list, 1, index) \o SubSeq(list, index + 2, Len(list))

(* the previous or next button: the call with depth 0 *)
Navigate ==
    /\ tab.pc = "idle"
    /\ \E dir \in {"prev", "next"} :
          tab' = [tab EXCEPT !.pc = "call", !.dir = dir, !.depth = 0]
    /\ tabFrame

(* the function up to its await: the two guards, then the index moves *)
EnterNavigate ==
    /\ tab.pc = "call"
    /\ LET atEnd == IF tab.dir = "prev"
                    THEN tab.currentHistoryIndex >= Len(tab.historyList) - 1
                    ELSE tab.currentHistoryIndex <= 0
           index == IF tab.dir = "prev" THEN tab.currentHistoryIndex + 1
                    ELSE tab.currentHistoryIndex - 1
       IN  tab' = IF atEnd \/ DepthReached(tab.depth)
                  THEN [tab EXCEPT !.pc = "done"]
                  ELSE [tab EXCEPT !.pc = "get", !.currentHistoryIndex = index,
                                   !.entry = tab.historyList[index + 1]]
    /\ tabFrame

(* await getHistoryImageById(historyEntry.imageId) rejects: catch, log *)
LookupFails ==
    /\ tab.pc = "get"
    /\ tab' = [tab EXCEPT !.pc = "done", !.failed = TRUE]
    /\ tabFrame

(* ... or answers: the image is displayed, or the entry is spliced out and
   the function calls itself with depth + 1 while entries are left *)
LookupAnswers ==
    /\ tab.pc = "get"
    /\ LET imageData == getHistoryImageById(images, tab.entry)
           list == splice(tab.historyList, tab.currentHistoryIndex)
           index == IF tab.dir = "prev" THEN tab.currentHistoryIndex - 1
                    ELSE tab.currentHistoryIndex
           more == IF tab.dir = "prev" THEN index < Len(list) - 1 ELSE index > 0
       IN  tab' = IF imageData # NoImage
                  THEN [tab EXCEPT !.pc = "done", !.displayed = tab.entry]
                  ELSE [tab EXCEPT !.pc = IF more THEN "call" ELSE "done",
                                   !.depth = IF more THEN @ + 1 ELSE @,
                                   !.historyList = list,
                                   !.currentHistoryIndex = index,
                                   !.skipped = Append(@, tab.entry)]
    /\ tabFrame

(* the page shows the current image or an entry of its history list; the
   store holds any of the images the entries refer to *)
InitNav ==
    /\ now = 0
    /\ ticks = 0
    /\ \E n \in 0..MaxEntries, held \in SUBSET EntryIds, index \in -1..MaxEntries :
          /\ held \subseteq 1..n
          /\ index < n
          /\ images = [id \in EntryIds |->
                         IF id \in held
                         THEN [id |-> id, timestamp |-> 0,
                               expiresAt |-> IMAGE_EXPIRY_HOURS]
                         ELSE NoImage]
          /\ history = {[id |-> i, viewedAt |-> 0, imageId |-> i] : i \in 1..n}
          /\ historyKey = n
          /\ tab = [pc |-> "idle", dir |-> "none", depth |-> 0,
                    historyList |-> [i \in 1..n |-> i],
                    currentHistoryIndex |-> index,
                    list0 |-> [i \in 1..n |-> i], index0 |-> index,
                    entry |-> 0, displayed |-> 0, skipped |-> <<>>,
                    failed |-> FALSE]
    /\ lastFetch = {}
    /\ dbWriteLock = 0
    /\ resolved = {0}
    /\ ops = <<>>
    /\ fetched = NoFetch
    /\ lastPick = NoPick
    /\ lastSweep = NoSweep
    /\ lastAppend = NoAppend
    /\ InitRefreshVars
    /\ InitKwVars
    /\ dl = NoDownload
    /\ prov = NoProvider
    /\ fa = NoFetchAll
    /\ cy = NoCycle
    /\ sel = NoSelection
    /\ tx = NoTransaction
    /\ rd = NoRead
    /\ ctl = NoControl

NextNav ==
    \/ Navigate
    \/ EnterNavigate
    \/ LookupFails
    \/ LookupAnswers

SpecNav == InitNav /\ [][NextNav]_vars

----------------------------------------------------------------------------
(* Properties of the store *)

(* C1: an image returned by the random-valid selection has expiresAt strictly
   greater than the time of the query; an image whose expiresAt equals the
   query time (or is earlier) is never returned. *)
C1_PickedStrictlyValid ==
    (lastPick.st = "picked" /\ lastPick.image # NoImage)
        => lastPick.image.expiresAt > lastPick.now

(* C2: whatever storeImages and setAllImagesToPermanentCache calls are issued
   around it, every record cleanExpiredImages removes had expiresAt <= the time
   the sweep read; it removes no record whose expiresAt is greater. *)
C2_SweepRemovesOnlyExpired ==
    lastSweep.st = "swept"
        => \A r \in lastSweep.removed : r.expiresAt <= lastSweep.now

(* a sweep that was issued while an earlier mutating call was unfinished has
   removed a record *)
C2_Witness ==
    /\ lastSweep.st = "swept"
    /\ lastSweep.queued
    /\ lastSweep.removed # {}

(* C4: the bodies of two mutating store operations never run at the same time,
   and an operation runs its body only after every operation issued before it
   has finished. *)
C4_OneWriterInIssueOrder ==
    \A i \in 1..Len(ops) :
        ops[i].st = "body"
            => \A j \in 1..Len(ops) :
                  /\ (j # i => ops[j].st # "body")
                  /\ (j < i => ops[j].st = "done")

(* one operation is in its body while a later one waits for the lock *)
C4_Witness ==
    \E i, j \in 1..Len(ops) : i < j /\ ops[i].st = "body" /\ ops[j].st = "waiting"

(* C5: right after addToHistory(.., maxSize) the history holds at most maxSize
   records, the records it removed are the oldest by viewedAt and no more than
   needed, and the new record is kept whenever maxSize >= 1. *)
C5_HistoryTrimmedOldestFirst ==
    lastAppend.st = "appended"
        => /\ Cardinality(history) <= lastAppend.maxSize
           /\ lastAppend.removed \cap history = {}
           /\ \A r \in lastAppend.removed : \A k \in history :
                  r.viewedAt <= k.viewedAt
           /\ (lastAppend.removed # {} => Cardinality(history) = lastAppend.maxSize)
           /\ (lastAppend.maxSize >= 1 => lastAppend.entry \in history)

(* an append that had to trim, and kept the new record beside an older one *)
C5_Witness ==
    /\ lastAppend.st = "appended"
    /\ lastAppend.removed # {}
    /\ lastAppend.entry \in history
    /\ Cardinality(history) >= 2

(* C6: every stored image, and every image handed to storeImages, has
   expiresAt > timestamp: at creation in both retention modes and after any
   retag to the permanent horizon. *)
C6_ExpiresAfterFetched ==
    /\ \A id \in Stored : images[id].expiresAt > images[id].timestamp
    /\ \A i \in 1..Len(ops) : \A r \in ops[i].arg.images : r.expiresAt > r.timestamp

(* an image fetched earlier has been retagged at a later time *)
C6_Witness ==
    \E id \in Stored :
        images[id].expiresAt > images[id].timestamp + PERMANENT_CACHE_EXPIRY_MS

----------------------------------------------------------------------------
(* Properties of the keyword rotation *)

KwList == allKeywords(unsplashKeywords, pexelsKeywords)
KwCount(k) == Cardinality({i \in 1..Len(kwLog) : kwLog[i] = k})

(* C7: over a fixed non-empty merged list of length L, the N calls made so
   far returned the keywords in cyclic list order starting after the
   persisted cursor; each keyword was returned floor(N/L) or ceil(N/L) times,
   and every L consecutive calls returned every keyword. *)
C7_CyclicRotation ==
    LET K == KwList
        L == Len(K)
        N == Len(kwLog)
    IN  L > 0 =>
        /\ \A i \in 1..N : kwLog[i] = K[((kwStart + i) % L) + 1]
        /\ \A a, b \in 1..L : K[a] = K[b] => a = b
        /\ \A a \in 1..L :
              KwCount(K[a]) \in {N \div L, (N + L - 1) \div L}
        /\ \A j \in 1..(N - L + 1) :
              {kwLog[i] : i \in j..(j + L - 1)} = {K[a] : a \in 1..L}

(* more calls than keywords, not a whole number of rounds, keywords that
   needed trimming and a duplicate dropped from the merge *)
C7_Witness ==
    /\ Len(KwList) >= 2
    /\ Len(kwLog) > Len(KwList)
    /\ Len(kwLog) % Len(KwList) # 0
    /\ Len(splitTrimmed(unsplashKeywords) \o splitTrimmed(pexelsKeywords))
          > Len(KwList)
    /\ kwStart >= Len(KwList)

----------------------------------------------------------------------------
(* Properties of the downloader *)

InDownloadFile == dl.pc \in {"fetch", "inflight", "backoff", "returned", "raised"}

(* C8: once a downloadFile call has received a response whose status is one
   of 400, 401, 402, 403, 404, 409, 422, 429, 500, 501, 502, 503 the call has
   raised, whatever retries remained: that response answered its last
   request, and no backoff wait followed it. *)
C8_NonRetryableRaisesAtOnce ==
    (/\ InDownloadFile
     /\ dl.error = "http"
     /\ dl.status \in {400, 401, 402, 403, 404, 409, 422, 429, 500, 501, 502, 503})
    => /\ dl.pc = "raised"
       /\ dl.requests = dl.attempt + 1
       /\ dl.waits = dl.attempt
       /\ dl.fails = dl.requests

(* a server error on the first attempt of a call with retries left *)
C8_Witness ==
    /\ dl.pc = "raised"
    /\ dl.error = "http"
    /\ dl.status = 503
    /\ dl.attempt = 0
    /\ dl.maxRetries >= 1

(* C9: a downloadFile call whose failures are all outside the non-retryable
   set makes at most maxRetries + 1 requests, of which at most maxRetries are
   retries; it returns on its first successful attempt, every earlier
   attempt having failed; and it raises only when attempt maxRetries + 1 has
   failed. *)
C9_BoundedRetries ==
    InDownloadFile =>
       /\ dl.requests <= dl.maxRetries + 1
       /\ dl.waits <= dl.maxRetries
       /\ dl.pc = "returned" => dl.requests = dl.fails + 1
       /\ dl.pc \in {"fetch", "backoff"} => dl.requests = dl.fails
       /\ (dl.pc = "raised" /\ dl.error \in {"timeout", "network"})
             => dl.requests = dl.maxRetries + 1 /\ dl.fails = dl.requests
       /\ (dl.pc = "raised" /\ dl.error = "http"
             /\ dl.status \notin NON_RETRYABLE_STATUS_CODES)
             => dl.requests = dl.maxRetries + 1 /\ dl.fails = dl.requests
       /\ dl.error # "unreachable"

(* a success on the last permitted attempt, after retryable failures *)
C9_Witness ==
    /\ dl.mode = "file"
    /\ dl.pc = "returned"
    /\ dl.maxRetries >= 2
    /\ dl.requests = dl.maxRetries + 1
    /\ dl.error = "timeout"

(* C10: the download requests issued for one metadata item number at most 3,
   whatever sequence of failures occurs. *)
C10_AtMostThreeRequestsPerItem ==
    dl.mode = "item" => dl.total <= 3

----------------------------------------------------------------------------
(* Properties of the refresh controller *)

RECURSIVE InvokedBy(_, _)
InvokedBy(C, op) ==
    IF C = {} THEN 0
    ELSE LET c == CHOOSE x \in C : TRUE
         IN  calls[c].invoked[op] + InvokedBy(C \ {c}, op)

Operations == {"housekeeping", "fetchAllImages", "storeImages", "setLastFetchTime"}

(* at most one call is Running, isFetching is set exactly while one is, and a
   call that arrived while another was Running has returned having invoked
   nothing: every invocation belongs to a call that arrived while none was *)
SingleFlight ==
    /\ Cardinality({c \in RefreshCalls : Running(c)}) <= 1
    /\ isFetching <=> \E c \in RefreshCalls : Running(c)
    /\ \A c \in RefreshCalls :
          calls[c].during # 0 =>
             calls[c].pc = "skipped" /\ calls[c].invoked = NoInvocations
    /\ \A op \in Operations :
          cycle[op] = InvokedBy({c \in RefreshCalls : calls[c].pc # "idle"
                                                      /\ calls[c].during = 0}, op)

(* a call and the call that ran while it arrived, both returned *)
ConcurrentPair(a, b) ==
    /\ calls[b].during = a
    /\ calls[a].pc = "done"
    /\ calls[b].pc \in {"skipped", "done"}

(* C3: of refreshImages calls issued concurrently at most one is ever
   Running; a call that arrives while another is Running returns without
   invoking housekeeping, fetchAllImages, storeImages or setLastFetchTime;
   so the fetches and writes of a pair of concurrent calls are those of the
   one call that ran, at most two of each and never those of two cycles. *)
C3_SingleFlight ==
    /\ SingleFlight
    /\ \A a, b \in RefreshCalls :
          ConcurrentPair(a, b) =>
             /\ InvokedBy({a, b}, "fetchAllImages") = calls[a].invoked.fetchAllImages
             /\ InvokedBy({a, b}, "storeImages") = calls[a].invoked.storeImages
             /\ calls[a].invoked.fetchAllImages <= 2
             /\ calls[a].invoked.storeImages <= 2

(* a call skipped while another ran a whole cycle with a fetch and a write *)
C3_Witness ==
    \E a, b \in RefreshCalls :
       /\ ConcurrentPair(a, b)
       /\ calls[b].pc = "skipped"
       /\ calls[a].invoked.fetchAllImages = 1
       /\ calls[a].invoked.storeImages = 1
       /\ calls[a].invoked.setLastFetchTime = 1

(* C3 as stated: single flight, and a pair of concurrent calls produces
   exactly one fetch and one write. *)
C3_ExactlyOneFetchAndWrite ==
    /\ SingleFlight
    /\ \A a, b \in RefreshCalls :
          ConcurrentPair(a, b) =>
             /\ InvokedBy({a, b}, "fetchAllImages") = 1
             /\ InvokedBy({a, b}, "storeImages") = 1

----------------------------------------------------------------------------
(* Properties of the fetch pipeline *)

FailedItems == {i \in DOMAIN prov.item : prov.item[i] \in {"null", "rejected"}}

(* C11: a provider fetcher that received M metadata entries attempts every
   one of them, waits for all, returns exactly the M - |F| entries whose
   download succeeded, F being the entries that failed for good, and does
   not raise. *)
C11_FailedItemsDropped ==
    /\ prov.raised = FALSE
    /\ prov.pc \in {"downloads", "returned"} => prov.attempted = 1..prov.M
    /\ prov.pc = "returned" =>
          /\ \A i \in DOMAIN prov.item : prov.item[i] # "pending"
          /\ prov.result = (1..prov.M) \ FailedItems
          /\ Cardinality(prov.result) = prov.M - Cardinality(FailedItems)

(* a batch returned with a rejected entry, an entry that gave null and an
   entry that was downloaded *)
C11_Witness ==
    /\ prov.pc = "returned"
    /\ \E i, j, k \in DOMAIN prov.item :
          /\ prov.item[i] = "rejected"
          /\ prov.item[j] = "null"
          /\ prov.item[k] = "downloaded"
          /\ k \in prov.result

(* C13: fetchAllImages warns of a low success rate exactly when fewer than
   80% of the metadata entries whose download was attempted were returned,
   25 entries with 20 downloads giving no warning; the warning is never an
   error. *)
C13_WarnBelowEightyPercentOfAttempted ==
    (fa.pc = "returned" /\ fa.attempted > 0) =>
       /\ fa.warned <=> (5 * fa.actual < 4 * fa.attempted)
       /\ fa.raised = FALSE

(* C14: with no credential configured for any provider fetchAllImages issues
   no request, starts no download and no provider, does not raise, and
   returns the empty list. *)
C14_NoCredentialsNoNetwork ==
    (fa.unsplashKeys = 0 /\ fa.pexelsKeys = 0) =>
       /\ fa.requests = 0
       /\ fa.attempted = 0
       /\ fa.pc # "providers"
       /\ fa.raised = FALSE
       /\ fa.pc = "returned" => fa.actual = 0

(* the call returned while online with no credential *)
C14_Witness ==
    /\ fa.pc = "returned"
    /\ fa.onLine
    /\ fa.unsplashKeys = 0
    /\ fa.pexelsKeys = 0

(* C12: fetchAllImages does not raise whatever the providers do: it returns
   only when every provider invocation has returned, and what it returns is
   all the items the providers returned, none when every one of them failed;
   a refresh cycle that receives the empty list ends without an error. *)
C12_ProviderFailuresContained ==
    /\ fa.raised = FALSE
    /\ fa.pc \in {"returned", "received"} =>
          /\ fa.pendingU = 0 /\ fa.pendingP = 0
          /\ fa.returned = fa.actual
          /\ fa.requests <= fa.unsplashKeys + fa.pexelsKeys
          /\ fa.failed = fa.requests => fa.returned = 0
    /\ (fa.pc = "received" /\ fa.returned = 0) => fa.cycle \in {"kept", "emergency"}

(* every configured provider failed at its metadata request, the list came
   back empty and the cycle kept the cache *)
C12_Witness ==
    /\ fa.pc = "received"
    /\ fa.unsplashKeys + fa.pexelsKeys >= 2
    /\ fa.failed = fa.unsplashKeys + fa.pexelsKeys
    /\ fa.returned = 0
    /\ fa.cycle = "kept"

----------------------------------------------------------------------------
(* Properties of the refresh cycle over the store *)

(* C15: a refresh cycle that runs with no credentials issues no provider API
   request in any cache and connectivity state; it issues no network request
   at all when the browser is offline or the cache shows a valid item, and
   downloads the built-in fallback URLs only when it is online and found the
   cache without a valid item or could not read it. *)
C15_NoProviderRequestWithoutCredentials ==
    ~cy.hasKeys =>
        /\ ~cy.api
        /\ cy.other => cy.onLine /\ cy.seen \in {"empty", "failed"}

(* without credentials, online, the cycle found no valid item, downloaded the
   fallback URLs and stored what it got *)
C15_Witness ==
    /\ ~cy.hasKeys
    /\ cy.pc = "done"
    /\ cy.other
    /\ cy.seen = "empty"
    /\ cy.storedOk

(* C15 as stated: with no credentials the cycle issues no network request of
   any kind *)
C15_NoNetworkWithoutCredentials ==
    ~cy.hasKeys => ~cy.api /\ ~cy.other

(* C16: a cycle that runs with permanent mode on over a store of N items
   is told updatedCount = N by setAllImagesToPermanentCache, its expiry
   housekeeping removes none of the N, and the store still holds all of them,
   unexpired, when the fetch phase begins. *)
C16_PermanentModeKeepsAll ==
    cy.updatedCount # -1 =>
        /\ cy.mode
        /\ cy.updatedCount = Cardinality(cy.held0)
        /\ cy.removed \cap cy.held0 = {}
        /\ cy.pc \in {"stats", "strategy"} =>
              \A id \in cy.held0 : images[id] # NoImage /\ images[id].expiresAt > now

(* MaxItems items whose normal TTL has run out went through the re-tag and the
   sweep of a permanent-mode cycle *)
C16_Witness ==
    /\ cy.pc = "strategy"
    /\ cy.updatedCount = MaxItems
    /\ now >= IMAGE_EXPIRY_HOURS
    /\ \A id \in CycleIds : images[id] # NoImage /\ images[id].timestamp = 0

(* C17: switching permanent mode off rewrites no stored record; afterwards a
   record leaves the store only through the sweep, once the clock has reached
   its expiresAt, and keeps its expiresAt unless a permanent-mode re-tag or a
   newly stored item of the same id rewrites it; the items fetched while the
   mode is off are the ones that get the normal TTL. *)
C17_SwitchOffKeepsExtendedExpiry ==
    [][/\ cy'.permanentMode # cy.permanentMode => images' = images
       /\ \A id \in CycleIds :
             /\ (images[id] # NoImage /\ images'[id] = NoImage)
                   => images[id].expiresAt <= now
             /\ (images[id] # NoImage /\ images'[id] \notin {NoImage, images[id]})
                   => \/ cy.mode /\ cy.pc = "permanent"
                      \/ images'[id] \in cy.batch
       /\ (cy'.batch # cy.batch /\ ~cy.permanentMode)
             => \A r \in cy'.batch :
                   \/ r = images[r.id]
                   \/ r.timestamp = now /\ r.expiresAt = now + IMAGE_EXPIRY_HOURS
      ]_vars

(* after the switch a normal-mode cycle swept an item whose normal TTL had run
   out and left the item with the extended expiry in the store *)
C17_Witness ==
    /\ cy.switchedOff /\ ~cy.permanentMode /\ ~cy.mode
    /\ cy.pc = "done"
    /\ cy.removed # {}
    /\ now >= IMAGE_EXPIRY_HOURS
    /\ \E id \in CycleIds :
          /\ images[id] # NoImage
          /\ images[id].expiresAt = computeExpiry(TRUE, images[id].timestamp)
          /\ images[id].timestamp + IMAGE_EXPIRY_HOURS <= now

(* C18: storeImages is an upsert by id: once it has completed, looking up the
   id of any stored item x returns a record equal to x, whether or not a
   record with that id existed before; storing the same batch again changes
   nothing, and every record sits under its own id, one per id. *)
C18_StoreIsUpsert ==
    cy.pc \in {"setLast", "emergencySetLast"} =>
        /\ \A x \in cy.batch : getHistoryImageById(images, x.id) = x
        /\ putAll(images, cy.batch) = images
        /\ \A id \in storedIds(images) : images[id].id = id

(* the batch replaced a record that existed under the same id with other
   field values *)
C18_Witness ==
    /\ cy.pc = "setLast"
    /\ \E x \in cy.batch :
          /\ cy.before[x.id] \notin {NoImage, x}
          /\ images[x.id] = x

(* C19: in every refresh cycle the last-fetch timestamp is written only after
   a storeImages call of that cycle has completed for at least one item; in a
   cycle where no store has completed (no item was obtained, or the store
   failed) the timestamp keeps the value it had when the cycle began. *)
C19_LastFetchOnlyAfterStore ==
    /\ cy.setLastCalled => cy.storedOk
    /\ cy.pc \in {"setLast", "emergencySetLast"} => cy.batch # {}
    /\ (cy.pc # "idle" /\ ~cy.storedOk) => lastFetch = cy.lastFetch0
    /\ (cy.pc # "idle" /\ ~cy.setLastDone) => lastFetch = cy.lastFetch0

(* a cycle stored its items and then moved the timestamp from the value it
   began with *)
C19_Witness ==
    /\ cy.pc = "done"
    /\ cy.storedOk /\ cy.setLastDone
    /\ lastFetch # cy.lastFetch0

(* C20: when the fetch phase yields no item while the store holds at least
   one valid item, the cycle calls neither storeImages nor setLastFetchTime:
   the stored records and the last-fetch timestamp stay as they were before
   the fetch phase. *)
C20_EmptyFetchKeepsCache ==
    (cy.yielded = 0 /\ validIds(cy.before, now) # {}) =>
        /\ ~cy.storeCalled
        /\ ~cy.setLastCalled
        /\ images = cy.before
        /\ lastFetch = cy.lastFetch0

(* the providers were asked and delivered nothing; the cycle reached its end
   with the valid items it had *)
C20_Witness ==
    /\ cy.pc = "finally"
    /\ cy.yielded = 0
    /\ cy.hasKeys /\ cy.api
    /\ validIds(cy.before, now) # {}
    /\ images = cy.before

(* C21: a cycle whose provider fetch obtained no item and that found the
   store without a valid item falls back to the static set and hands what it
   obtained to storeImages. *)
C21_EmptyFetchEmptyStoreFallsBack ==
    (cy.pc = "finally" /\ cy.yielded = 0 /\ cy.seen = "empty") => cy.storeCalled

----------------------------------------------------------------------------
(* Properties of the refresh controller *)

(* C22: a refresh call in which a store operation failed ends by telling its
   trigger that the refresh did not succeed. *)
C22_StoreErrorReachesTrigger ==
    \A c \in RefreshCalls :
        (calls[c].pc = "done" /\ calls[c].storeError) => calls[c].told = "failed"

----------------------------------------------------------------------------
(* Properties of the image-source selection *)

(* C23: getImagesWithFallback returns at least one item whatever the cache,
   the connectivity, the credentials, allowApiCalls and the outcome of each
   source, and the sources it tries come in the order cached, network,
   static fallback, placeholder. *)
C23_NeverEmptyInFixedOrder ==
    sel.fn = "getImagesWithFallback" =>
        /\ ~sel.raised
        /\ sel.pc = "returned" => sel.items >= 1
        /\ \A i, j \in 1..Len(sel.tried) :
              i < j => Rank(sel.tried[i]) < Rank(sel.tried[j])

(* every source was tried and failed, the placeholder twice, and one item
   came back *)
C23_Witness ==
    /\ sel.fn = "getImagesWithFallback"
    /\ sel.pc = "returned"
    /\ sel.tried = Sources
    /\ sel.result = "emergency_fallback"
    /\ sel.items = 1

(* C24: called with allowApiCalls = false, the selection never chooses the
   strategy 'api' and never invokes fetchAllImages, in every cache,
   connectivity and credential state. *)
C24_NoApiWithoutPermission ==
    (sel.fn \in {"getImageSourceStrategy", "getImagesWithFallback"}
        /\ ~sel.allowApiCalls) =>
        /\ sel.strategy # "api"
        /\ sel.pc # "api" \/ sel.strategy = "cached"
        /\ sel.apiFetches = 0
        /\ sel.result # "api"
        /\ \A i \in 1..Len(sel.tried) : sel.tried[i] # "network"

(* online, with credentials and no rate limit, the cache read failed and the
   call went past the api case to the fallback URLs without a provider fetch *)
C24_Witness ==
    /\ sel.fn = "getImagesWithFallback"
    /\ ~sel.allowApiCalls /\ sel.onLine /\ sel.hasKeys /\ ~sel.rateLimited
    /\ sel.pc = "returned"
    /\ sel.tried = <<"cached", "fallback">>
    /\ sel.apiFetches = 0

(* C25: getFallbackImages never raises and returns at least one item, also
   when the host is offline or every fallback download failed. *)
C25_FallbackNeverEmpty ==
    (sel.fn \in {"getFallbackImages", "getFallbackImagesEarlier"}
        /\ sel.pc = "returned") =>
        ~sel.raised /\ sel.items >= 1

(* C26: every refresh call that enters Running comes to its end, on every
   path (success, no items, a thrown error, a failing emergency fallback):
   from some point on no call is Running. And isFetching is set exactly while a call is Running, so a call issued
   after the end of a cycle finds the flag clear and is executed. *)
C26_RunningReturnsToIdle ==
    /\ <>[](\A c \in RefreshCalls : ~Running(c))
    /\ [](isFetching <=> \E c \in RefreshCalls : Running(c))
    /\ [](\A c \in RefreshCalls :
             calls[c].pc = "skipped" => calls[c].during # 0)

(* a second call was issued after the first had ended through the emergency
   path, and it ran to its own end *)
C26_Witness ==
    /\ calls[1].pc = "done" /\ calls[1].storeError
    /\ calls[2].pc = "done" /\ calls[2].during = 0
    /\ ~isFetching

----------------------------------------------------------------------------
(* Properties of the transactions on imagesStore *)

(* C27: a read that overlaps a mutation of several records finds, on the
   records the mutation changes, either the store as it was before the
   mutation or the store with every change made, and returns a result that
   one of these two stores gives; and every read that was begun completes,
   whether or not the refresh cycle in progress ever ends *)
C27_ReadsSeeNoneOrAll ==
    /\ [](rd.pc = "done" /\ rd.overlap =>
            /\ rd.sawNone \/ rd.sawAll
            /\ rd.gotNone \/ rd.gotAll)
    /\ (rd.pc = "created" ~> rd.pc = "done")

(* a read begun and completed inside one refresh cycle that found all the
   changes of a mutation of two or more records *)
C27_Witness ==
    /\ rd.pc = "done" /\ rd.overlap /\ rd.many
    /\ rd.sawAll /\ ~rd.sawNone
    /\ rd.inCycle

(* C28: an operation to which the engine reported an error on one of its
   requests has rejected, with no state in which the error was reported and
   its promise is left unsettled or resolved *)
C28_EngineErrorReachesCaller ==
    /\ rd.error # "none" => rd.pc = "rejected"
    /\ tx.error # "none" => tx.pc = "rejected"

----------------------------------------------------------------------------
(* Properties of the fetch session *)

(* the cursor stands one position after where the session found it, and
   every provider invocation was given the keyword at that position *)
SessionAdvancedOnce ==
    LET all == allKeywords(unsplashKeywords, pexelsKeywords)
    IN  /\ lastKeywordIndex = {(fa.cursor0 + 1) % Len(all)}
        /\ fa.keyword = all[((fa.cursor0 + 1) % Len(all)) + 1]
        /\ fa.given \subseteq {fa.keyword}
        /\ fa.unsplashKeys + fa.pexelsKeys > 0 => fa.given = {fa.keyword}

(* C29 as stated: every fetchAllImages call over a non-empty merged keyword
   list has advanced the cursor by one when it returns *)
C29_EverySessionAdvancesOnce ==
    fa.pc = "returned" /\ Len(allKeywords(unsplashKeywords, pexelsKeywords)) > 0
        => SessionAdvancedOnce

(* C29: every fetchAllImages call that finds the browser online, over a
   non-empty merged keyword list, has advanced the persisted cursor by
   exactly one position modulo the list length when it returns, with zero,
   one or several keys, and gave every provider invocation the same keyword;
   a call that finds the browser offline leaves the cursor where it was *)
C29_OnlineSessionAdvancesOnce ==
    fa.pc = "returned" /\ Len(allKeywords(unsplashKeywords, pexelsKeywords)) > 0
        => IF fa.onLine THEN SessionAdvancedOnce
           ELSE lastKeywordIndex = (IF fa.cursor0 = -1 THEN {} ELSE {fa.cursor0})

(* a session with a key of each provider over two keywords that moved the
   cursor from the last position round to the first *)
C29_Witness ==
    /\ fa.pc = "returned" /\ fa.onLine
    /\ fa.unsplashKeys > 0 /\ fa.pexelsKeys > 0
    /\ Len(allKeywords(unsplashKeywords, pexelsKeywords)) = 2
    /\ fa.cursor0 = 1 /\ lastKeywordIndex = {0}
    /\ fa.given = {fa.keyword}

----------------------------------------------------------------------------
(* Properties of the payloads *)

(* C30: an entry whose payload has a content type that is not an image is
   not among the items the provider fetcher returns and is not stored *)
C30_NotAnImageIsDropped ==
    /\ prov.pc \in {"returned", "stored"} => prov.result \cap prov.notImages = {}
    /\ prov.stored \cap prov.notImages = {}

----------------------------------------------------------------------------
(* Properties of the history navigation *)

(* the i-th entry met from the position the navigation started at *)
Candidate(i) ==
    IF tab.dir = "prev" THEN tab.list0[tab.index0 + i + 1]
    ELSE tab.list0[tab.index0 - i + 1]

Candidates ==
    IF tab.dir = "prev" THEN Len(tab.list0) - 1 - tab.index0
    ELSE IF tab.index0 > 0 THEN tab.index0 ELSE 0

(* C31: a navigation changes no record of the store; when it has ended it
   has skipped at most MAX_RECURSION_DEPTH entries, each of them the next one
   in its direction and each referring to an image the store does not hold,
   these entries and no others have left the list, and what it displayed, if
   anything, is the entry after the skipped ones, held by the store; without
   a failed lookup it stopped only at a displayed entry, at the end of the
   list or at the depth limit *)
C31_DanglingEntriesSkipped ==
    /\ [][images' = images /\ history' = history]_vars
    /\ [](tab.pc = "done" =>
            LET k == Len(tab.skipped) IN
            /\ k <= MAX_RECURSION_DEPTH
            /\ k <= Candidates
            /\ \A i \in 1..k : /\ tab.skipped[i] = Candidate(i)
                                /\ images[tab.skipped[i]] = NoImage
            /\ tab.historyList =
                  SelectSeq(tab.list0,
                            LAMBDA e : \A i \in 1..k : tab.skipped[i] # e)
            /\ tab.displayed # 0 =>
                  /\ k < Candidates
                  /\ tab.displayed = Candidate(k + 1)
                  /\ images[tab.displayed] # NoImage
            /\ tab.displayed = 0 /\ ~tab.failed =>
                  k = Candidates \/ k = MAX_RECURSION_DEPTH)

(* a navigation to older entries stopped by the depth limit, an entry left *)
C31_Witness ==
    /\ tab.pc = "done" /\ tab.dir = "prev"
    /\ Len(tab.skipped) = MAX_RECURSION_DEPTH
    /\ tab.depth = MAX_RECURSION_DEPTH
    /\ tab.displayed = 0
    /\ Len(tab.historyList) > 0

----------------------------------------------------------------------------
(* Properties of getRandomImage *)

(* C32: a returned getRandomImage call drew at most 2 + RandomImageAttempts
   times; it returned null exactly when its last draw found no valid image,
   and otherwise an image valid at that draw, also when every valid image
   was viewed within the repeat-avoidance window *)
C32_NullOnlyWithoutValidImage ==
    rd.pc = "returned" =>
        /\ rd.draws <= 2 + RandomImageAttempts
        /\ rd.result = NoImage <=> ~rd.validAtDraw
        /\ rd.result # NoImage => rd.result = rd.image

(* a call that used up its redraws over images all viewed recently and
   returned one of them *)
C32_Witness ==
    /\ rd.pc = "returned"
    /\ rd.draws = 2 + RandomImageAttempts
    /\ rd.viewedAll /\ rd.validAtDraw
    /\ rd.result # NoImage

----------------------------------------------------------------------------
(* Properties of the merged keyword list *)

KwParts == split(unsplashKeywords) \o split(pexelsKeywords)
Blank(k) == \A i \in 1..Len(k) : k[i] = " "
Trimmed(k) == k # <<>> /\ Head(k) # " " /\ k[Len(k)] # " "
Within(k, part) ==
    \E lead \in 0..(Len(part) - Len(k)) :
           \A i \in 1..Len(part) :
              IF i <= lead \/ i > lead + Len(k) THEN part[i] = " "
              ELSE part[i] = k[i - lead]
FirstPart(k) == CHOOSE i \in 1..Len(KwParts) :
                    /\ Within(k, KwParts[i])
                    /\ \A j \in 1..(i - 1) : ~Within(k, KwParts[j])

(* the settings strings are the same in every state of a behaviour, so the
   shape of the merged list is looked at before and after the first call *)
MergedListShape ==
    LET K == KwList
        parts == KwParts
    IN  /\ \A a \in 1..Len(K) :
              /\ Trimmed(K[a])
              /\ \E i \in 1..Len(parts) : Within(K[a], parts[i])
        /\ \A i \in 1..Len(parts) :
              Blank(parts[i]) \/ \E a \in 1..Len(K) : Within(K[a], parts[i])
        /\ \A a, b \in 1..Len(K) : a < b =>
              K[a] # K[b] /\ FirstPart(K[a]) < FirstPart(K[b])

(* C33: the list rotated over holds, once each and in the order of their
   first occurrence, the trimmed non-blank entries of the first keyword list
   followed by those of the second; every call returns an entry of it at the
   position after the cursor; a call over an empty list returns null and
   leaves the cursor as it was *)
C33_RotatesOverMergedList ==
    LET K == KwList IN
    /\ Len(kwLog) <= 1 => MergedListShape
    /\ Len(K) = 0 =>
          /\ \A i \in 1..Len(kwLog) : kwLog[i] = <<>>
          /\ lastKeywordIndex = IF kwStart = -1 THEN {} ELSE {kwStart}
    /\ Len(K) > 0 /\ Len(kwLog) > 0 =>
          /\ kwLog[Len(kwLog)] = K[getLastKeywordIndex + 1]
          /\ getLastKeywordIndex = (kwStart + Len(kwLog)) % Len(K)

(* calls made over a list whose first entry occurs again in the second
   keyword list, behind another keyword and untrimmed *)
C33_Witness ==
    /\ Len(kwLog) = 1
    /\ Len(KwList) = 2
    /\ \E i \in 1..Len(split(pexelsKeywords)) :
          /\ Within(KwList[1], split(pexelsKeywords)[i])
          /\ split(pexelsKeywords)[i] # KwList[1]
    /\ Within(KwList[2], split(unsplashKeywords)[Len(split(unsplashKeywords))])
    /\ kwLog[Len(kwLog)] = KwList[2]

----------------------------------------------------------------------------
(* Properties of the retagging of the cache *)

(* C34: when setAllImagesToPermanentCache has returned, every stored image,
   the expired ones included, expires at the time of the call plus the
   permanent horizon, so every stored image is valid, and the returned count
   is the number of stored images *)
C34_RetagCoversEveryImage ==
    tx.pc = "returned" =>
        /\ \A id \in storedIds(images) :
              images[id].expiresAt = tx.at + PERMANENT_CACHE_EXPIRY_MS
        /\ validIds(images, now) = storedIds(images)
        /\ storedIds(images) = storedIds(tx.before)
        /\ tx.result = Cardinality(storedIds(images))

(* a returned call that found an expired image and a valid one, the clock
   having moved since the call *)
C34_Witness ==
    /\ tx.pc = "returned"
    /\ tx.expiredBefore
    /\ validIds(tx.before, tx.at) # {}
    /\ tx.result >= 2
    /\ now > tx.at

----------------------------------------------------------------------------
(* Properties of the cooldown of the API key trigger *)

Accepted(i) == {j \in 1..(i - 1) : ctl.log[j].refresh}
LastAccepted(i) == CHOOSE j \in Accepted(i) : \A k \in Accepted(i) : k <= j

(* C35: a trigger is refused exactly when it comes less than the cooldown
   after the last accepted trigger; a refused trigger starts no refresh, is
   answered with the cooldown failure and leaves lastManualFetch alone; an
   accepted trigger starts one refresh and its time becomes lastManualFetch *)
C35_CooldownBetweenAcceptedTriggers ==
    LET log == ctl.log
        all == Accepted(Len(log) + 1)
    IN  /\ \A i \in 1..Len(log) :
              /\ log[i].refresh <=>
                     \/ Accepted(i) = {}
                     \/ log[i].at - log[LastAccepted(i)].at >= IMMEDIATE_FETCH_COOLDOWN_MS
              /\ ~log[i].refresh <=> log[i].response = "cooldown"
        /\ ctl.refreshes = Cardinality(all)
        /\ ctl.lastManualFetch =
              IF all = {} THEN 0 ELSE log[LastAccepted(Len(log) + 1)].at

(* a trigger refused a millisecond before the end of the cooldown and the
   next accepted at its end *)
C35_Witness ==
    /\ Len(ctl.log) = 3
    /\ ctl.log[1].refresh /\ ~ctl.log[2].refresh /\ ctl.log[3].refresh
    /\ ctl.log[2].at = ctl.log[1].at + IMMEDIATE_FETCH_COOLDOWN_MS - 1
    /\ ctl.log[3].at = ctl.log[1].at + IMMEDIATE_FETCH_COOLDOWN_MS
    /\ ctl.lastManualFetch = ctl.log[3].at

----------------------------------------------------------------------------
(* Properties of the write lock under failure *)

(* C36: a failure is reported to the caller of the failed operation only,
   operations are settled in the order they were issued, and an operation
   waiting for the lock eventually runs, also behind an operation that
   failed *)
C36_LockReleasedAfterFailure ==
    /\ [](\A k \in 1..Len(tx.settled) : tx.settled[k].op = k)
    /\ \A i \in 1..MaxLockOps :
          (i <= Len(ops) /\ ops[i].st = "waiting")
              ~> (i <= Len(ops) /\ ops[i].st # "waiting")

----------------------------------------------------------------------------
(* Properties of the statistics *)

(* C37: the numbers getDatabaseStats returns are those of one store state
   that existed during the call: no negative expired count, no more valid
   images than images, and the total the sum of the two *)
C37_StatsOfOneStoreState ==
    rd.pc = "returned" =>
        /\ rd.expiredImages >= 0
        /\ rd.validImages <= rd.totalImages
        /\ rd.totalImages = rd.validImages + rd.expiredImages
        /\ <<rd.totalImages, rd.validImages>> \in rd.existed

----------------------------------------------------------------------------
(* Properties of the canvas transitions *)

(* C38: the promise of every transition call is settled in the end, also
   when a later call stopped its animation; and once every call made is
   settled, the image of the latest call is on display, unless that image
   failed to load *)
C38_EveryTransitionSettles ==
    /\ \A k \in 1..MaxTransitions :
          (tab.call[k] # "none") ~> (tab.call[k] \in SettledCalls)
    /\ []((/\ tab.activeTransitionId > 0
           /\ \A k \in 1..MaxTransitions : tab.call[k] \in SettledCalls \cup {"none"}
           /\ tab.call[tab.activeTransitionId] # "failed")
          => tab.currentImage = tab.activeTransitionId)

----------------------------------------------------------------------------
(* Properties of the options page *)

(* C39: a successful force-refresh changes no stored settings field but
   forceRefreshCooldown: the API keys stored before the response are the API
   keys stored after it *)
C39_ForceRefreshKeepsSettings ==
    [][ctl.pc = "sent" /\ ctl'.pc = "idle" /\ ctl'.stored # ctl.stored
          => ctl'.stored.apiKeys = ctl.stored.apiKeys]_vars

----------------------------------------------------------------------------
(* Properties of the deletion on the new tab page *)

(* C40: the image that loadRandomImage selects, displays and records in the
   history after deleteCurrentImage is not the deleted image *)
C40_DeletedImageNotLoadedAgain ==
    tab.deleted # 0 =>
        /\ tab.pc = "display" => tab.picked # tab.deleted
        /\ tab.appended # tab.deleted

====
